---- MODULE Spec2Model ----
(***************************************************************************)
(* Model of the qlbridge SQL lexer (src/lexer.go): the cursor over the     *)
(* input, the one-slot token channel, the stack of pending state           *)
(* functions, the NextToken driver loop and the state functions reachable  *)
(* from lexStatement.                                                      *)
(*                                                                         *)
(* The input is a sequence of bytes.  An ASCII byte is the one-character   *)
(* string of its character; the two bytes of the UTF-8 encoding of U+00E9  *)
(* are the strings "C3" and "A9", and the byte 0 is "NUL".  Positions are  *)
(* byte offsets counted from 0 as in the source, so the byte at offset p   *)
(* is input[p + 1].                                                        *)
(***************************************************************************)
EXTENDS Integers, Sequences, FiniteSets, TLC

VARIABLES input, state, pos, start, width, tokens, stack, halt, out, lastOp, prevPos

vars == <<input, state, pos, start, width, tokens, stack, halt, out, lastOp, prevPos>>

(***************************************************************************)
(* Bounds of the model.                                                    *)
(***************************************************************************)
\* the caller makes at most this many NextToken calls
MaxCalls == 32
\* the cursor exercise calls backup at most this many times in a row
MaxBackups == 2

(***************************************************************************)
(* Runes and character classes.                                            *)
(***************************************************************************)
eof == "EOF"
RuneError == "RuneError"
e_acute == "e_acute"
NUL == "NUL"

LowerSeq == <<"a","b","c","d","e","f","g","h","i","j","k","l","m",
              "n","o","p","q","r","s","t","u","v","w","x","y","z">>
UpperSeq == <<"A","B","C","D","E","F","G","H","I","J","K","L","M",
              "N","O","P","Q","R","S","T","U","V","W","X","Y","Z">>
Range(s) == {s[i] : i \in DOMAIN s}
Letters == Range(LowerSeq) \cup Range(UpperSeq) \cup {e_acute}
Digits == {"0","1","2","3","4","5","6","7","8","9"}
Punct == {"_", ".", "/", " ", "\n", "\t", "\r", "\f", "*", "=", "!", ">", "<",
          "(", ")", ",", ";", "'", "\"", "[", "]", "-", "#", "+"}
Runes == Letters \cup Digits \cup Punct \cup {eof, RuneError, NUL}

\* unicode.IsSpace
IsSpace(r) == r \in {" ", "\n", "\t", "\r", "\f"}
\* unicode.IsLetter, unicode.IsDigit
IsLetter(r) == r \in Letters
IsDigit(r) == r \in Digits
\* unicode.ToLower on one rune
ToLower(r) ==
    IF \E i \in DOMAIN UpperSeq : UpperSeq[i] = r
    THEN LowerSeq[CHOOSE i \in DOMAIN UpperSeq : UpperSeq[i] = r]
    ELSE r
\* unicode.ToUpper on one rune
ToUpper(r) ==
    IF \E i \in DOMAIN LowerSeq : LowerSeq[i] = r
    THEN UpperSeq[CHOOSE i \in DOMAIN LowerSeq : LowerSeq[i] = r]
    ELSE r
\* strings.ToLower / strings.ToUpper
StrToLower(s) == [i \in DOMAIN s |-> ToLower(s[i])]
StrToUpper(s) == [i \in DOMAIN s |-> ToUpper(s[i])]

isAlNum(r) == r = "_" \/ IsLetter(r) \/ IsDigit(r)
isAlpha(r) == r = "_" \/ IsLetter(r) \/ r = "."
isAlNumOrPeriod(r) == r = "_" \/ IsLetter(r) \/ IsDigit(r) \/ r = "."
isDigit(r) == r \in Digits
isWhiteSpace(r) == r \in {"\r", "\n", "\t", " "}
IDENTITY_CHARS == {"_", "."}
IDENTITY_LAX_CHARS == {"_", ".", "/", " "}
isIdentifierRune(r) == IsLetter(r) \/ IsDigit(r) \/ r \in IDENTITY_CHARS
isLaxIdentifierRune(r) == IsLetter(r) \/ IsDigit(r) \/ r \in IDENTITY_LAX_CHARS

\* utf8.DecodeRuneInString(s[p:]) for 0 <= p < len(s): the rune and its width
DecodeRuneInString(s, p) ==
    LET b == s[p + 1] IN
    IF b = "C3"
    THEN IF p + 2 <= Len(s) /\ s[p + 2] = "A9"
         THEN [r |-> e_acute, w |-> 2]
         ELSE [r |-> RuneError, w |-> 1]
    ELSE IF b = "A9" THEN [r |-> RuneError, w |-> 1]
    ELSE [r |-> b, w |-> 1]

(***************************************************************************)
(* Token types (the ones the lexer emits) and their names.                 *)
(***************************************************************************)
\* TokenType.String(): the name the keyword matchers compare the input with
TokenName(typ) ==
    CASE typ = "TokenSelect" -> <<"s","e","l","e","c","t">>
      [] typ = "TokenFrom" -> <<"f","r","o","m">>
      [] typ = "TokenWhere" -> <<"w","h","e","r","e">>
      [] typ = "TokenGroupBy" -> <<"g","r","o","u","p"," ","b","y">>
      [] OTHER -> <<"n","o","t"," ","i","m","p","l","e","m","e","n","t","e","d">>

Token(t, v) == [T |-> t, V |-> v]

\* capacity of the token channel
TokensCap == 1
\* the stack depth above which lexColumnOrComma does not push
\* the greatest depth of the continuation stack
MaxDepth == 10

\* a guard that lets one more continuation onto the stack
StackLimit_OneMore == MaxDepth + 1

StackLimit == 10

(***************************************************************************)
(* The Lexer as a record, and the cursor operations on it.  A record also  *)
(* carries r (the rune the last read returned) and ok (the last boolean    *)
(* result), the locals of the function being executed.  halt is "none"     *)
(* while the program runs, and names the way it stopped otherwise:         *)
(* "panic" (a Go panic), "loop" (a loop that never ends), "block" (a send  *)
(* on the full token channel, which nothing ever receives).  Every         *)
(* operation leaves a halted record alone.                                 *)
(***************************************************************************)
Lexer ==
    [input |-> input, state |-> state, pos |-> pos, start |-> start,
     width |-> width, tokens |-> tokens, stack |-> stack, halt |-> halt,
     r |-> eof, ok |-> FALSE]

Running(l) == l.halt = "none"

next(l) ==
    IF ~Running(l) THEN l
    ELSE IF l.pos >= Len(l.input) THEN [l EXCEPT !.width = 0, !.r = eof]
    ELSE IF l.pos < 0 THEN [l EXCEPT !.halt = "panic"]
    ELSE LET d == DecodeRuneInString(l.input, l.pos) IN
         [l EXCEPT !.width = d.w, !.pos = @ + d.w, !.r = d.r]

RECURSIVE skipX(_, _)
skipX(l, ct) == IF ct = 0 THEN l ELSE skipX(next(l), ct - 1)

backup(l) == IF ~Running(l) THEN l ELSE [l EXCEPT !.pos = @ - l.width]

peek(l) == backup(next(l))

\* l.input[l.pos:l.pos+x], clamped at the end of the input
peekX(l, x) ==
    IF l.pos + x > Len(l.input)
    THEN SubSeq(l.input, l.pos + 1, Len(l.input))
    ELSE SubSeq(l.input, l.pos + 1, l.pos + x)

RECURSIVE peekWordFrom(_, _, _)
peekWordFrom(l, i, word) ==
    IF i >= Len(l.input) - l.pos THEN word
    ELSE LET r == DecodeRuneInString(l.input, l.pos + i).r IN
         IF IsSpace(r) \/ ~isAlNumOrPeriod(r) THEN word
         ELSE peekWordFrom(l, i + 1, Append(word, r))

peekWord(l) == peekWordFrom(l, 0, <<>>)

isEnd(l) == l.pos >= Len(l.input)

\* the slice l.input[l.start:l.pos] exists
SliceOk(l) == 0 <= l.start /\ l.start <= l.pos /\ l.pos <= Len(l.input)

emit(l, t) ==
    IF ~Running(l) THEN l
    ELSE IF ~SliceOk(l) THEN [l EXCEPT !.halt = "panic"]
    ELSE IF Len(l.tokens) >= TokensCap THEN [l EXCEPT !.halt = "block"]
    ELSE [l EXCEPT !.tokens = Append(@, Token(t, SubSeq(l.input, l.start + 1, l.pos))),
                   !.start = l.pos]

ignore(l) == IF ~Running(l) THEN l ELSE [l EXCEPT !.start = l.pos]

\* for r := l.next(); r in S; r = l.next() {}: the record after the read
\* that ended the loop.  At the end of the input next() returns eof and
\* moves nothing, so a loop that goes on at eof never ends.
RECURSIVE ScanWhile(_, _)
ScanWhile(l, S) ==
    LET n == next(l) IN
    IF ~Running(n) THEN n
    ELSE IF n.r \notin S THEN n
    ELSE IF n.r = eof THEN [n EXCEPT !.halt = "loop"]
    ELSE ScanWhile(n, S)

accept(l, valid) ==
    LET n == next(l) IN
    IF n.r \in valid THEN [n EXCEPT !.ok = TRUE] ELSE [backup(n) EXCEPT !.ok = FALSE]

acceptRun(l, valid) ==
    LET n == backup(ScanWhile(l, valid)) IN [n EXCEPT !.ok = n.pos > l.pos]

\* current() as a statement: the lexeme is dropped by every caller's callee
current(l) ==
    IF ~Running(l) THEN l
    ELSE IF ~SliceOk(l) THEN [l EXCEPT !.halt = "panic"]
    ELSE [l EXCEPT !.start = l.pos]

push(l, name, fn) ==
    IF ~Running(l) THEN l
    ELSE [l EXCEPT !.stack = Append(@, [Name |-> name, StateFn |-> fn])]

\* errorf: the message itself is the token's text
errorf(l, msg) ==
    IF ~Running(l) THEN l
    ELSE IF Len(l.tokens) >= TokensCap THEN [l EXCEPT !.halt = "block"]
    ELSE [l EXCEPT !.tokens = Append(@, Token("TokenError", msg)), !.state = "nil"]

\* pop that hands out the last state and leaves it on the stack
pop_KeepEntry(l) ==
    IF ~Running(l) THEN l
    ELSE IF Len(l.stack) = 0
    THEN errorf(l, <<"BUG in lexer: no states to pop.">>)
    ELSE [l EXCEPT !.state = l.stack[Len(l.stack)].StateFn]

pop(l) ==
    IF ~Running(l) THEN l
    ELSE IF Len(l.stack) = 0
    THEN errorf(l, <<"BUG in lexer: no states to pop.">>)
    ELSE [l EXCEPT !.state = l.stack[Len(l.stack)].StateFn,
                   !.stack = SubSeq(l.stack, 1, Len(l.stack) - 1)]

skipWhiteSpaces(l) == ignore(backup(ScanWhile(l, {" ", "\n", "\t", "\r", "\f"})))

\* strings.HasPrefix(l.input[l.pos:], p)
HasPrefix(l, p) ==
    /\ l.pos + Len(p) <= Len(l.input)
    /\ SubSeq(l.input, l.pos + 1, l.pos + Len(p)) = p

RECURSIVE matchFrom(_, _, _, _)
matchFrom(l, matchTo, i, skip) ==
    IF ~Running(l) THEN [l EXCEPT !.ok = FALSE]
    ELSE IF i > Len(matchTo)
    THEN LET p == peek(l) IN [p EXCEPT !.ok = isWhiteSpace(p.r)]
    ELSE IF skip > 0 THEN matchFrom(l, matchTo, i + 1, skip - 1)
    ELSE LET n == next(l) IN
         IF matchTo[i] # n.r /\ ToLower(n.r) # matchTo[i]
         THEN [n EXCEPT !.ok = FALSE]
         ELSE matchFrom(n, matchTo, i + 1, skip)

match(l, matchTo, skip) == matchFrom(l, matchTo, 1, skip)

RECURSIVE backupN(_, _)
backupN(l, n) == IF n = 0 THEN l ELSE backupN(backup(l), n - 1)

RECURSIVE tryMatchFrom(_, _, _)
tryMatchFrom(l, matchTo, i) ==
    IF ~Running(l) THEN [l EXCEPT !.ok = FALSE]
    ELSE IF i > Len(matchTo) THEN [l EXCEPT !.ok = TRUE]
    ELSE LET n == next(l) IN
         IF ToLower(n.r) # matchTo[i]
         THEN [backupN(n, i) EXCEPT !.ok = FALSE]
         ELSE tryMatchFrom(n, matchTo, i + 1)

tryMatch(l, matchTo) == tryMatchFrom(l, matchTo, 1)

\* errorToken emits the pending lexeme as the Error token; its message
\* argument is formatted by the caller and then dropped
errorToken(l) == [emit(l, "TokenError") EXCEPT !.state = "nil"]

(***************************************************************************)
(* The state functions.  Each takes the Lexer record and gives the record  *)
(* after the call, with state set to the StateFn it returns ("nil" for     *)
(* nil).                                                                   *)
(***************************************************************************)
Return(l, fn) == [l EXCEPT !.state = fn]

lexMatch(l, typ, skip, fn) ==
    LET m == match(l, TokenName(typ), skip) IN
    IF m.ok THEN Return(emit(m, typ), fn)
    ELSE errorToken(current(m))

lexIfElseMatch(l, typ, matchState, noMatchState) ==
    LET m == tryMatch(skipWhiteSpaces(l), TokenName(typ)) IN
    IF m.ok THEN Return(emit(m, typ), matchState)
    ELSE Return(m, noMatchState)

RECURSIVE lexMultilineCmtLoop(_)
lexMultilineCmtLoop(l) ==
    IF ~Running(l) THEN l
    ELSE IF HasPrefix(l, <<"*", "/">>) THEN l
    ELSE LET n == next(l) IN
         IF n.r = eof THEN [n EXCEPT !.halt = "panic"]
         ELSE lexMultilineCmtLoop(n)

lexMultilineCmt(l, nextFn) ==
    LET body == lexMultilineCmtLoop(next(next(l))) IN
    Return(emit(next(next(body)), "TokenComment"), nextFn)

\* lexSingleLineCmt with the newline left in the comment
lexSingleLineCmt_KeepNewline(l, nextFn) ==
    LET a == next(l)
        b == IF a.r \in {"-", "/"} THEN next(a) ELSE a
        c == ScanWhile(b, Runes \ {"\n", eof})
    IN Return(emit(c, "TokenComment"), nextFn)

lexSingleLineCmt(l, nextFn) ==
    LET a == next(l)
        b == IF a.r \in {"-", "/"} THEN next(a) ELSE a
        c == backup(ScanWhile(b, Runes \ {"\n", eof}))
    IN Return(emit(c, "TokenComment"), nextFn)

lexComment(l, nextFn) ==
    IF HasPrefix(l, <<"/", "*">>) THEN lexMultilineCmt(l, nextFn)
    ELSE IF HasPrefix(l, <<"/", "/">>) THEN lexSingleLineCmt(l, nextFn)
    ELSE IF HasPrefix(l, <<"-", "-">>) THEN lexSingleLineCmt(l, nextFn)
    ELSE IF HasPrefix(l, <<"#">>) THEN lexSingleLineCmt(l, nextFn)
    ELSE Return(l, "nil")

\* lexStatement with the push of the FROM continuation moved before the switch
lexStatement_PushFirst(l) ==
    LET p == push(peek(skipWhiteSpaces(l)), "from keyword", "fromKeyword") IN
    IF p.r \in {"/", "-", "#"} THEN lexComment(p, "lexStatement")
    ELSE IF p.r \in {"s", "S"}
    THEN lexMatch(p, "TokenSelect", 0, "lexColumnOrComma")
    ELSE LET t == IF p.pos > p.start THEN emit(p, "TokenText") ELSE p IN
         Return(emit(t, "TokenEOF"), "nil")

lexStatement(l) ==
    LET p == peek(skipWhiteSpaces(l)) IN
    IF p.r \in {"/", "-", "#"} THEN lexComment(p, "lexStatement")
    ELSE IF p.r \in {"s", "S"}
    THEN lexMatch(push(p, "from keyword", "fromKeyword"), "TokenSelect", 0,
                  "lexColumnOrComma")
    ELSE LET t == IF p.pos > p.start THEN emit(p, "TokenText") ELSE p IN
         Return(emit(t, "TokenEOF"), "nil")

\* the quoted-string loop of Lexer.lexValue, entered with l.r the rune
\* just read and typ the token type chosen so far
RECURSIVE lexValueQuoted(_, _)
lexValueQuoted(l, typ) ==
    LET Rest(m, t) ==
            IF m.r = NUL THEN errorToken(m)
            ELSE IF m.r = eof THEN [m EXCEPT !.halt = "loop"]
            ELSE lexValueQuoted(next(m), t)
    IN
    IF ~Running(l) THEN l
    ELSE IF l.r \in {"'", "\""}
    THEN IF ~isEnd(l)
         THEN LET n == next(l) IN
              IF n.r \in {"'", "\""}
              THEN Rest(n, "TokenValueWithSingleQuote")
              ELSE Return(ignore(next(emit(backup(backup(n)), typ))), "nil")
         ELSE Return(next(emit(backup(l), typ)), "nil")
    ELSE Rest(l, typ)

\* the method (l *Lexer) lexValue()
Lexer_lexValue(l) ==
    LET a == skipWhiteSpaces(l) IN
    IF isEnd(a) THEN errorToken(a)
    ELSE LET b == next(a) IN
         IF b.r = ")" THEN Return(b, "nil")
         ELSE IF b.r \in {"'", "\""}
         THEN lexValueQuoted(next(ignore(b)), "TokenValue")
         ELSE LET c == ScanWhile(b, {r \in Runes : ~isWhiteSpace(r) /\ r # "," /\ r # ")"})
              IN Return(emit(backup(c), "TokenValue"), "nil")

\* the state function lexValue(l)
lexValue(l) == Return(Lexer_lexValue(l), "nil")

lexIdentifier(l, typ, nextFn) ==
    LET b == next(skipWhiteSpaces(l))
        firstChar == b.r
    IN
    IF firstChar \in {"[", "'"}
    THEN LET c == next(ignore(b)) IN
         IF ~IsLetter(c.r) THEN errorToken(c)
         ELSE LET d == ScanWhile(c, {r \in Runes : isLaxIdentifierRune(r)}) IN
              IF \/ firstChar = "[" /\ d.r = "]"
                 \/ firstChar = "'" /\ d.r = "'"
              THEN Return(ignore(next(emit(backup(d), typ))), nextFn)
              ELSE errorToken(d)
    ELSE IF ~IsLetter(firstChar) THEN errorToken(b)
    ELSE LET d == ScanWhile(b, {r \in Runes : isIdentifierRune(r)}) IN
         Return(emit(backup(d), typ), nextFn)

RECURSIVE isExprFrom(_, _)
isExprFrom(l, i) ==
    IF i >= Len(l.input) - l.pos THEN FALSE
    ELSE LET r == DecodeRuneInString(l.input, l.pos + i).r IN
         IF r = "(" /\ i > 0 THEN TRUE
         ELSE IF IsSpace(r) THEN FALSE
         ELSE IF ~isAlNumOrPeriod(r) THEN FALSE
         ELSE isExprFrom(l, i + 1)

isExpr(l) ==
    LET r == peek(l).r IN
    IF r = "'" THEN FALSE
    ELSE IF isDigit(r) THEN FALSE
    ELSE isExprFrom(l, 0)

isNextKeyword(l) == StrToUpper(peekWord(l)) = <<"F", "R", "O", "M">>

isIdentity(l) ==
    LET r == peek(l).r IN
    IF r = "'" THEN FALSE
    ELSE IF isDigit(r) THEN FALSE
    ELSE isAlpha(r)

lexExpressionIdentifier(l, nextFn) ==
    LET b == next(skipWhiteSpaces(l)) IN
    IF ~IsLetter(b.r) THEN errorToken(b)
    ELSE LET d == ScanWhile(b, {r \in Runes : isIdentifierRune(r)}) IN
         Return(emit(backup(d), "TokenUdfExpr"), nextFn)

\* lexExpression with a continuation pushed before the arguments
lexExpression_PushEnd(l) ==
    LET b == next(l) IN
    IF b.r # "(" THEN [emit(b, "TokenError") EXCEPT !.state = "nil"]
    ELSE [push(emit(b, "TokenLeftParenthesis"), "lexExpressionEnd", "lexColumnOrComma")
            EXCEPT !.state = "lexColumnOrComma"]

lexExpression(l) ==
    LET b == next(l) IN
    IF b.r # "(" THEN errorToken(b)
    ELSE Return(emit(b, "TokenLeftParenthesis"), "lexColumnOrComma")

lexExpressionOrIdentity(l) ==
    LET p == peek(skipWhiteSpaces(l)) IN
    IF isExpr(p) THEN lexExpressionIdentifier(p, "lexExpression")
    ELSE IF isIdentity(p) THEN Return(lexIdentifier(p, "TokenColumn", "nil"), "nil")
    ELSE Lexer_lexValue(p)

\* the closure makeStateFnKeyword returns: it matches TokenFrom whatever
\* tokenType it was made with
makeStateFnKeyword(l, tokenType, matchFn) ==
    lexMatch(skipWhiteSpaces(l), "TokenFrom", 0, matchFn)

\* lexSqlFromTable emitting the identifier as a column
lexSqlFromTable_AsColumn(l) == lexIdentifier(l, "TokenColumn", "lexSqlWhere")

lexSqlFromTable(l) == lexIdentifier(l, "TokenTable", "lexSqlWhere")

lexSqlEndOfStatement(l) ==
    LET b == next(skipWhiteSpaces(l))
        c == IF b.r = ";" THEN emit(b, "TokenEOS") ELSE b
    IN IF isEnd(c) THEN Return(c, "nil") ELSE errorToken(current(c))

lexSqlWhere(l) == lexIfElseMatch(l, "TokenWhere", "lexSqlWhereColumn", "lexGroupBy")

\* lexSqlWhereColumn emitting the identifier as a table
lexSqlWhereColumn_AsTable(l) == lexIdentifier(l, "TokenTable", "lexSqlWhereColumnExpr")

lexSqlWhereColumn(l) == lexIdentifier(l, "TokenColumn", "lexSqlWhereColumnExpr")

lexGroupBy(l) ==
    lexIfElseMatch(l, "TokenGroupBy", "lexSqlGroupByColumns", "lexSqlEndOfStatement")

lexSqlGroupByColumns(l) == Return(l, "lexColumnOrComma")

lexSqlWhereCommaOrLogicOrNext(l) ==
    LET b == next(skipWhiteSpaces(l))
        c == IF b.r = "(" THEN skipWhiteSpaces(emit(b, "TokenLeftParenthesis"))
             ELSE IF b.r = ")" THEN skipWhiteSpaces(emit(b, "TokenRightParenthesis"))
             ELSE backup(b)
        word == StrToUpper(peekWord(c))
    IN
    IF b.r = "," THEN Return(emit(b, "TokenComma"), "lexSqlWhereColumn")
    ELSE IF ~Running(c) THEN c
    ELSE IF word = <<>> THEN Return(c, "lexGroupBy")
    ELSE IF word = <<"O", "R">>
    THEN Return(emit(skipX(c, 2), "TokenLogicOr"), "lexSqlWhereColumn")
    ELSE IF word = <<"A", "N", "D">>
    THEN Return(emit(backup(skipX(c, 3)), "TokenLogicAnd"), "lexSqlWhereColumn")
    ELSE Return(backup(c), "lexGroupBy")

lexSqlWhereColumnExpr(l) ==
    LET b == next(skipWhiteSpaces(l))
        p == peek(b)
        c == backup(b)
        word == StrToUpper(peekWord(c))
        PushValue(m) ==
            Return(push(push(m, "lexSqlWhereCommaOrLogicOrNext",
                             "lexSqlWhereCommaOrLogicOrNext"),
                        "lexValue", "lexValue"), "nil")
    IN
    IF ~Running(b) THEN b
    ELSE IF b.r = "!"
    THEN IF p.r = "=" THEN PushValue(emit(next(p), "TokenNE"))
         ELSE Return(p, "nil")
    ELSE IF b.r = "=" THEN PushValue(emit(b, "TokenEqual"))
    ELSE IF b.r = ">"
    THEN PushValue(emit(IF p.r = "=" THEN emit(next(p), "TokenGE") ELSE p, "TokenGT"))
    ELSE IF b.r = "<"
    THEN PushValue(IF p.r = "=" THEN emit(next(p), "TokenLE") ELSE p)
    ELSE IF word = <<"I", "N">>
    THEN Return(push(push(emit(skipX(c, 2), "TokenIN"),
                          "lexSqlWhereCommaOrLogicOrNext",
                          "lexSqlWhereCommaOrLogicOrNext"),
                     "lexColumnOrComma", "lexColumnOrComma"), "nil")
    ELSE IF word = <<"L", "I", "K", "E">>
    THEN PushValue(emit(skipX(c, 4), "TokenLike"))
    ELSE PushValue(c)

lexColumnOrComma(l) ==
    LET b == next(skipWhiteSpaces(l))
        c == backup(b)
    IN
    IF ~Running(b) THEN b
    ELSE IF ToLower(b.r) = "a" /\ StrToLower(peekX(b, 2)) = <<"s", " ">>
    THEN Return(emit(next(b), "TokenAs"), "lexValue")
    ELSE IF b.r = "("
    THEN Return(emit(b, "TokenLeftParenthesis"), "lexColumnOrComma")
    ELSE IF b.r = ")" THEN Return(emit(b, "TokenRightParenthesis"), "nil")
    ELSE IF b.r = "," THEN Return(emit(b, "TokenComma"), "lexColumnOrComma")
    ELSE IF b.r = "*" THEN Return(emit(b, "TokenStar"), "nil")
    ELSE IF isNextKeyword(c) THEN Return(c, "nil")
    ELSE Return(IF Len(c.stack) < StackLimit
                THEN push(c, "columnorcomma", "lexColumnOrComma")
                ELSE c,
                "lexExpressionOrIdentity")

decDigits == {"0", "1", "2", "3", "4", "5", "6", "7", "8", "9"}
hexDigits == decDigits \cup {"A", "B", "C", "D", "E", "F"}

\* scanNumber gives the Lexer after the scan, the token type and ok
scanResult(l, typ, ok) == [l |-> l, typ |-> typ, ok |-> ok /\ Running(l)]

\* scanNumber from "Next thing must not be alphanumeric" on
scanNumberEnd(l, typ) ==
    LET p == peek(l) IN
    IF isAlNum(p.r) THEN scanResult(next(p), typ, FALSE)
    ELSE scanResult(p, typ, TRUE)

\* scanNumber from if l.accept("e") on, the "e" read or not
scanNumberExponent(e, typ) ==
    IF e.ok
    THEN LET d == acceptRun(accept(e, {"+", "-"}), decDigits) IN
         IF ~d.ok THEN scanResult(d, typ, FALSE)
         ELSE scanNumberEnd(d, "TokenFloat")
    ELSE scanNumberEnd(e, typ)

\* the decimal branch after the digits, the "." read or not; first is the
\* offset of the first digit
scanNumberFraction(d, first) ==
    IF ~Running(d) THEN scanResult(d, "TokenInteger", FALSE)
    ELSE IF d.ok
    THEN LET f == acceptRun(d, decDigits) IN
         IF ~f.ok THEN scanResult(f, "TokenInteger", FALSE)
         ELSE scanNumberExponent(accept(f, {"e"}), "TokenFloat")
    ELSE IF first >= Len(d.input)
    THEN scanResult([d EXCEPT !.halt = "panic"], "TokenInteger", FALSE)
    ELSE IF d.input[first + 1] = "0" THEN scanResult(d, "TokenInteger", FALSE)
    ELSE scanNumberExponent(accept(d, {"e"}), "TokenInteger")

\* the decimal branch, the digits read or not
scanNumberDecimal(a, first) ==
    IF ~a.ok THEN scanResult(a, "TokenInteger", FALSE)
    ELSE scanNumberFraction(accept(a, {"."}), first)

\* the hexadecimal branch after the run of 0 and x, the digits read or not
scanNumberHex(h) ==
    IF ~h.ok THEN scanResult(h, "TokenInteger", FALSE)
    ELSE LET d == accept(h, {"."}) IN
         IF d.ok THEN scanResult(d, "TokenInteger", FALSE)
         ELSE scanNumberEnd(d, "TokenInteger")

\* scanNumber after the optional sign, read or not.  The slice
\* l.input[l.pos:l.pos+2] and the byte l.input[l.start] or
\* l.input[l.start+1] panic when they reach past the end of the input.
scanNumberSigned(s) ==
    IF ~Running(s) THEN scanResult(s, "TokenInteger", FALSE)
    ELSE IF s.pos + 2 > Len(s.input)
    THEN scanResult([s EXCEPT !.halt = "panic"], "TokenInteger", FALSE)
    ELSE IF SubSeq(s.input, s.pos + 1, s.pos + 2) = <<"0", "x">>
    THEN IF s.ok THEN scanResult(s, "TokenInteger", FALSE)
         ELSE scanNumberHex(acceptRun(acceptRun(s, {"0", "x"}), hexDigits))
    ELSE scanNumberDecimal(acceptRun(s, decDigits),
                           IF s.ok THEN s.start + 1 ELSE s.start)

scanNumber(l) == scanNumberSigned(accept(l, {"+", "-"}))

\* fmt's %q of a string of letters, digits, signs and periods: the string in
\* double quotes
Quoted(str) == <<"\"">> \o str \o <<"\"">>

\* lexNumber after the call of scanNumber, with every number emitted as an
\* integer
lexNumberScanned_AlwaysInteger(s) ==
    IF ~Running(s.l) THEN s.l
    ELSE IF ~s.ok
    THEN errorf(s.l, <<"bad number syntax: ">>
                     \o Quoted(SubSeq(s.l.input, s.l.start + 1, s.l.pos)))
    ELSE [emit(s.l, "TokenInteger") EXCEPT !.state = "nil"]

\* lexNumber after the call of scanNumber
lexNumberScanned(s) ==
    IF ~Running(s.l) THEN s.l
    ELSE IF ~s.ok
    THEN errorf(s.l, <<"bad number syntax: ">>
                     \o Quoted(SubSeq(s.l.input, s.l.start + 1, s.l.pos)))
    ELSE Return(emit(s.l, s.typ), "nil")

lexNumber(l) == lexNumberScanned(scanNumber(l))

\* l.state(l): the call of the current state function
CallState(l) ==
    CASE l.state = "lexStatement" -> lexStatement(l)
      [] l.state = "lexColumnOrComma" -> lexColumnOrComma(l)
      [] l.state = "lexExpressionOrIdentity" -> lexExpressionOrIdentity(l)
      [] l.state = "lexExpression" -> lexExpression(l)
      [] l.state = "fromKeyword" -> makeStateFnKeyword(l, "TokenFrom", "lexSqlFromTable")
      [] l.state = "lexSqlFromTable" -> lexSqlFromTable(l)
      [] l.state = "lexSqlWhere" -> lexSqlWhere(l)
      [] l.state = "lexSqlWhereColumn" -> lexSqlWhereColumn(l)
      [] l.state = "lexSqlWhereColumnExpr" -> lexSqlWhereColumnExpr(l)
      [] l.state = "lexSqlWhereCommaOrLogicOrNext" -> lexSqlWhereCommaOrLogicOrNext(l)
      [] l.state = "lexGroupBy" -> lexGroupBy(l)
      [] l.state = "lexSqlGroupByColumns" -> lexSqlGroupByColumns(l)
      [] l.state = "lexSqlEndOfStatement" -> lexSqlEndOfStatement(l)
      [] l.state = "lexValue" -> lexValue(l)
      [] l.state = "lexNumber" -> lexNumber(l)

(***************************************************************************)
(* The inputs the lexer is run on.                                         *)
(***************************************************************************)
RECURSIVE Cat(_)
Cat(ss) == IF ss = <<>> THEN <<>> ELSE Head(ss) \o Cat(Tail(ss))

SelectWords ==
    {<<"S", "E", "L", "E", "C", "T">>,
     <<"s", "e", "l", "e", "c", "t">>,
     <<"S", "e", "l", "e", "c", "t">>}

FromWords ==
    {<<"F", "R", "O", "M">>,
     <<"f", "r", "o", "m">>}

WhereWords ==
    {<<"W", "H", "E", "R", "E">>,
     <<"w", "h", "e", "r", "e">>}

\* bare identifiers: a letter, then letters, digits, _ and .
TableNames ==
    {<<"t">>,
     <<"t", "1">>,
     <<"a", "_", "b">>,
     <<"a", ".", "b">>,
     <<"u", "s", "e", "r", "s">>,
     <<"a", "s">>,
     <<"w", "h", "e", "r", "e">>,
     <<"t", "C3", "A9">>}

SelectStarFrom(sel, frm, tbl) == Cat(<<sel, <<" ", "*", " ">>, frm, <<" ">>, tbl>>)

StarInputs == {SelectStarFrom(s, f, t) : s \in SelectWords, f \in FromWords, t \in TableNames}

Column1Names ==
    {<<"a">>,
     <<"c", "o", "l">>}

Column2Names ==
    {<<"b">>,
     <<"x", "_", "1">>}

WhereColumnNames ==
    {<<"c">>,
     <<"a", ".", "b">>}

\* values in quotes, with no quote inside
QuotedValues ==
    {<<"'", "v", "'">>,
     <<"\"", "v", "\"">>,
     <<"'", "a", " ", "b", "'">>,
     <<"'", "'">>,
     <<"'", "5", "'">>}

UnquotedValues ==
    {<<"v">>,
     <<"5">>,
     <<"x", "1">>}

\* the text of a quoted value: what stands between its quotes
Unquote(v) == SubSeq(v, 2, Len(v) - 1)

SelectWhere(sel, c1, c2, frm, tbl, whr, c, v) ==
    Cat(<<sel, <<" ">>, c1, <<",", " ">>, c2, <<" ">>, frm, <<" ">>, tbl, <<" ">>,
          whr, <<" ">>, c, <<" ", "=", " ">>, v>>)

WhereInputs ==
    {SelectWhere(s, c1, c2, f, <<"t">>, w, c, v) :
        s \in {<<"S", "E", "L", "E", "C", "T">>}, c1 \in Column1Names,
        c2 \in Column2Names, f \in {<<"F", "R", "O", "M">>}, w \in WhereWords,
        c \in WhereColumnNames, v \in QuotedValues \cup UnquotedValues}

CommentPrefixes ==
    {<<"-", "-", " ", "n", "o", "t", "e", "\n">>,
     <<"#", " ", "n", "o", "t", "e", "\n">>,
     <<"/", "/", " ", "n", "o", "t", "e", "\n">>,
     <<"/", "*", " ", "n", "o", "t", "e", " ", "*", "/">>}

\* the comment of a prefix: the prefix without its newline
CommentText(p) == IF p[Len(p)] = "\n" THEN SubSeq(p, 1, Len(p) - 1) ELSE p

CommentInputs == {p \o i : p \in CommentPrefixes, i \in StarInputs}

\* statements with further clauses, with errors, and fragments
OtherInputs ==
    {<<>>,
     <<" ", "\n">>,
     <<"x">>,
     <<"-", "x">>,
     <<"/", "*", " ", "n", "o", "t", "e">>,
     <<"/", "*", " ", "a", " ", "*", "/", " ", "-", "-", " ", "b">>,
     <<"S", "E", "L", "E", "C", "T", "x", " ", "*", " ", "F", "R", "O", "M", " ", "t">>,
     <<"S", "E", "L", "E", "C", "T", " ", "1">>,
     <<"S", "E", "L", "E", "C", "T", " ", "a">>,
     <<"S", "E", "L", "E", "C", "T", " ", "a", ",", " ", "a", "s", " ", "F", "R", "O", "M", " ", "t">>,
     <<"S", "E", "L", "E", "C", "T", " ", "*", " ", "F", "R", "O", "M", " ", "t", ";">>,
     <<"S", "E", "L", "E", "C", "T", " ", "*", " ", "F", "R", "O", "M", " ", "t", ";", " ">>,
     <<"S", "E", "L", "E", "C", "T", " ", "*", " ", "F", "R", "O", "M", " ", "t", ";", " ", "x">>,
     <<"S", "E", "L", "E", "C", "T", " ", "*", " ", "F", "R", "O", "M", " ", "t", " ", "x">>,
     <<"S", "E", "L", "E", "C", "T", " ", "*", " ", "F", "R", "O", "M", " ", "t", " ", "w", "h">>,
     <<"S", "E", "L", "E", "C", "T", " ", "*", " ", "F", "R", "O", "M", " ", "t", " ", "W", "H", "E", "R", "E", " ", "a", " ", ">", "=", " ", "1">>,
     <<"S", "E", "L", "E", "C", "T", " ", "*", " ", "F", "R", "O", "M", " ", "t", " ", "W", "H", "E", "R", "E", " ", "a", " ", ">", " ", "1", " ">>,
     <<"S", "E", "L", "E", "C", "T", " ", "*", " ", "F", "R", "O", "M", " ", "t", " ", "W", "H", "E", "R", "E", " ", "a", " ", "<", " ", "1", " ">>,
     <<"S", "E", "L", "E", "C", "T", " ", "*", " ", "F", "R", "O", "M", " ", "t", " ", "W", "H", "E", "R", "E", " ", "a", " ", "<", "=", " ", "1", " ">>,
     <<"S", "E", "L", "E", "C", "T", " ", "*", " ", "F", "R", "O", "M", " ", "t", " ", "W", "H", "E", "R", "E", " ", "a", " ", "!", "=", " ", "1", " ">>,
     <<"S", "E", "L", "E", "C", "T", " ", "*", " ", "F", "R", "O", "M", " ", "t", " ", "W", "H", "E", "R", "E", " ", "a", " ", "!", " ", "1", " ">>,
     <<"S", "E", "L", "E", "C", "T", " ", "*", " ", "F", "R", "O", "M", " ", "t", " ", "W", "H", "E", "R", "E", " ", "a", " ", "L", "I", "K", "E", " ", "'", "b", "'">>,
     <<"S", "E", "L", "E", "C", "T", " ", "*", " ", "F", "R", "O", "M", " ", "t", " ", "W", "H", "E", "R", "E", " ", "a", " ", "=", " ", "'", "b", "'", " ", "x">>,
     <<"S", "E", "L", "E", "C", "T", " ", "*", " ", "F", "R", "O", "M", " ", "t", " ", "W", "H", "E", "R", "E", " ", "a", " ", "=", " ", "'", "b">>,
     <<"S", "E", "L", "E", "C", "T", " ", "*", " ", "F", "R", "O", "M", " ", "t", " ", "W", "H", "E", "R", "E", " ", "a", " ", "=", " ", "'", "b", "NUL">>,
     <<"S", "E", "L", "E", "C", "T", " ", "*", " ", "F", "R", "O", "M", " ", "t", " ", "W", "H", "E", "R", "E", " ", "a", " ", "=", " ", "'", "i", "t", "'", "'", "s", "'">>,
     <<"S", "E", "L", "E", "C", "T", " ", "*", " ", "F", "R", "O", "M", " ", "t", " ", "W", "H", "E", "R", "E", " ", "a", " ", "=", " ", "'", "i", "t", "'", "'", "s", "'", " ">>,
     <<"S", "E", "L", "E", "C", "T", " ", "*", " ", "F", "R", "O", "M", " ", "t", " ", "W", "H", "E", "R", "E", " ", "a", " ", "=", " ", "'", "b", "'", " ", "A", "N", "D", " ", "c", " ", "=", " ", "'", "d", "'">>,
     <<"S", "E", "L", "E", "C", "T", " ", "*", " ", "F", "R", "O", "M", " ", "t", " ", "W", "H", "E", "R", "E", " ", "a", " ", "=", " ", "'", "b", "'", " ", "O", "R", " ", "c", " ", "=", " ", "'", "d", "'">>,
     <<"S", "E", "L", "E", "C", "T", " ", "*", " ", "F", "R", "O", "M", " ", "t", " ", "W", "H", "E", "R", "E", " ", "a", " ", "=", " ", "'", "b", "'", ",", " ", "c", " ", "=", " ", "'", "d", "'">>,
     <<"S", "E", "L", "E", "C", "T", " ", "*", " ", "F", "R", "O", "M", " ", "t", " ", "W", "H", "E", "R", "E", " ", "a", " ", "=", " ", "'", "b", "'", " ", "(", "O", "R", " ", "c", " ", "=", " ", "'", "d", "'", ")">>,
     <<"S", "E", "L", "E", "C", "T", " ", "*", " ", "F", "R", "O", "M", " ", "t", " ", "W", "H", "E", "R", "E", " ", "a", " ", "=", " ", "'", "b", "'", " ", ")", " ">>,
     <<"S", "E", "L", "E", "C", "T", " ", "*", " ", "F", "R", "O", "M", " ", "t", " ", "W", "H", "E", "R", "E", " ", "a", " ", "I", "N", " ", "(", "1", ",", " ", "2", ")">>,
     <<"S", "E", "L", "E", "C", "T", " ", "*", " ", "F", "R", "O", "M", " ", "t", " ", "W", "H", "E", "R", "E", " ", "a", " ", "I", "N", " ", "(", "'", "b", "'", ",", " ", "'", "c", "'", ")", " ">>,
     <<"S", "E", "L", "E", "C", "T", " ", "l", "o", "w", "e", "r", "(", "a", ")", ",", " ", "b", " ", "F", "R", "O", "M", " ", "t">>,
     <<"S", "E", "L", "E", "C", "T", " ", "f", "(", "g", "(", "a", ")", ",", " ", "'", "x", "'", ")", ",", " ", "b", " ", "F", "R", "O", "M", " ", "t">>,
     <<"S", "E", "L", "E", "C", "T", " ", "[", "f", "i", "r", "s", "t", " ", "n", "a", "m", "e", "]", ",", " ", "'", "l", "a", "s", "t", " ", "n", "a", "m", "e", "'", " ", "F", "R", "O", "M", " ", "[", "m", "y", " ", "t", "a", "b", "l", "e", "]">>,
     <<"S", "E", "L", "E", "C", "T", " ", "[", "f", "i", "r", "s", "t", " ", "n", "a", "m", "e", "'", " ", "F", "R", "O", "M", " ", "t">>,
     <<"S", "E", "L", "E", "C", "T", " ", "a", " ", "A", "S", " ", "b", " ", "F", "R", "O", "M", " ", "t">>,
     <<"S", "E", "L", "E", "C", "T", " ", "(", "a", ",", " ", "b", ")", " ", "F", "R", "O", "M", " ", "t">>,
     <<"S", "E", "L", "E", "C", "T", " ", "l", "o", "w", "e", "r", " ", "a", " ", "F", "R", "O", "M", " ", "t">>,
     <<"S", "E", "L", "E", "C", "T", " ", "l", "o", "w", "e", "r", "(", " ", "F", "R", "O", "M", " ", "t">>,
     <<"S", "E", "L", "E", "C", "T", " ", "*", " ", "F", "R", "O", "M", " ", "t", " ", "G", "R", "O", "U", "P", " ", "B", "Y", " ", "a">>,
     <<"S", "E", "L", "E", "C", "T", " ", "*", " ", "F", "R", "O", "M", " ", "t", " ", "G", "R", "O", "U", "P", " ", "B", "Y", " ", "a", ",", " ", "b", " ">>,
     <<"S", "E", "L", "E", "C", "T", " ", "*", " ", "F", "R", "O", "M", " ", "1", "t">>,
     <<"S", "E", "L", "E", "C", "T", " ", "*", " ", "F", "R", "O", "M", " ", "t", " ", "W", "H", "E", "R", "E", " ", "C3", "A9", " ", "=", " ", "'", "C3", "A9", "'">>,
     <<"S", "E", "L", "E", "C", "T", " ", "*", " ", "F", "R", "O", "M", " ", "t", " ", "W", "H", "E", "R", "E", " ", "a", " ", "=", " ", "'", "b", "'", " ", "C3", "A9">>,
     <<"S", "E", "L", "E", "C", "T", " ", "*", " ", "F", "R", "O", "M", " ", "t", " ", "g", "r", "o", "u", "p", " ", "b", "C3", "A9">>}

\* statements put together clause by clause, well-formed and not
HeadParts ==
    {<<"S", "E", "L", "E", "C", "T", " ">>,
     <<"s", "e", "l", "e", "c", "t", " ">>,
     <<"S", "E", "L", "E", "C", "T", "x", " ">>,
     <<"/", "*", " ", "c", " ", "*", "/", " ", "S", "E", "L", "E", "C", "T", " ">>}

ColumnParts ==
    {<<"*">>,
     <<"a", ",", " ", "b">>,
     <<"l", "o", "w", "e", "r", "(", "a", ")">>,
     <<"a", " ", "A", "S", " ", "b">>,
     <<"1", ",", " ", "a">>,
     <<"[", "a", " ", "b", "]">>}

FromParts ==
    {<<" ", "F", "R", "O", "M", " ", "t">>,
     <<" ", "f", "r", "o", "m", " ", "[", "m", "y", " ", "t", "]">>,
     <<" ", "F", "R", "O", "M", " ", "1", "t">>,
     <<>>}

WhereParts ==
    {<<>>,
     <<" ", "W", "H", "E", "R", "E", " ", "a", " ", "=", " ", "'", "b", "'">>,
     <<" ", "W", "H", "E", "R", "E", " ", "a", " ", ">", "=", " ", "1", " ">>,
     <<" ", "W", "H", "E", "R", "E", " ", "a", " ", "I", "N", " ", "(", "1", ",", " ", "2", ")">>,
     <<" ", "W", "H", "E", "R", "E", " ", "a", " ", "=", " ", "'", "b", "'", " ", "A", "N", "D", " ", "c", " ", "=", " ", "'", "d", "'">>,
     <<" ", "w", "h", "e", "r", "e", " ", "a", " ", "!", " ", "b", " ">>}

TailParts ==
    {<<>>,
     <<";">>,
     <<" ", "x">>,
     <<";", " ", "x">>}

ClauseInputs ==
    {Cat(<<h, c, f, w, t>>) :
        h \in HeadParts, c \in ColumnParts, f \in FromParts, w \in WhereParts,
        t \in TailParts}

\* identifiers in quotes, closed by the delimiter that opened them and not
QuotedNames ==
    {<<"[", "f", "i", "r", "s", "t", " ", "n", "a", "m", "e", "]">>,
     <<"'", "f", "i", "r", "s", "t", " ", "n", "a", "m", "e", "'">>}

MismatchedNames ==
    {<<"[", "f", "i", "r", "s", "t", " ", "n", "a", "m", "e", "'">>,
     <<"'", "f", "i", "r", "s", "t", " ", "n", "a", "m", "e", "]">>}

\* a quoted identifier as the column selected, as the table, as the column
\* of the WHERE predicate
SelectQuoted(q) == Cat(<<<<"S", "E", "L", "E", "C", "T", " ">>, q, <<" ", "F", "R", "O", "M", " ", "t">>>>)
FromQuoted(q) == <<"S", "E", "L", "E", "C", "T", " ", "*", " ", "F", "R", "O", "M", " ">> \o q
WhereQuoted(q) ==
    Cat(<<<<"S", "E", "L", "E", "C", "T", " ", "*", " ", "F", "R", "O", "M", " ", "t", " ",
            "W", "H", "E", "R", "E", " ">>, q, <<" ", "=", " ", "'", "x", "'">>>>)

QuotedNameInputs ==
    {SelectQuoted(q) : q \in QuotedNames \cup MismatchedNames}
    \cup {FromQuoted(q) : q \in QuotedNames \cup MismatchedNames}
    \cup {WhereQuoted(q) : q \in QuotedNames \cup MismatchedNames}

\* values in quotes with a doubled quote inside
DoubledValues ==
    {<<"'", "i", "t", "'", "'", "s", "'">>,
     <<"'", "a", "'", "'", "b", "'", "'", "c", "'">>,
     <<"'", "'", "'", "s", "'">>,
     <<"'", "i", "t", "'", "'", "'">>,
     <<"\"", "i", "t", "\"", "\"", "s", "\"">>}

\* what stands after a value: nothing, or more of the statement
ValueFollowers ==
    {<<>>,
     <<" ">>,
     <<";">>,
     <<" ", "O", "R", " ", "c", " ", "=", " ", "'", "d", "'">>,
     <<",", " ", "c", " ", "=", " ", "'", "d", "'">>,
     <<"C3", "A9">>}

WhereValue(v, f) ==
    Cat(<<<<"S", "E", "L", "E", "C", "T", " ", "*", " ", "F", "R", "O", "M", " ", "t", " ", "W", "H", "E", "R", "E", " ", "a", " ", "=", " ">>, v, f>>)

ValueInputs ==
    {WhereValue(v, f) : v \in QuotedValues \cup DoubledValues, f \in ValueFollowers}

\* texts that begin with no comment and with no s
UnrecognizedInputs ==
    {<<" ", "x">>,
     <<" ", "\n", " ", "i", "n", "s", "e", "r", "t", " ", "i", "n", "t", "o", " ", "t">>,
     <<"1">>,
     <<";">>,
     <<"C3", "A9">>,
     <<"u", "p", "d", "a", "t", "e", " ", "t">>,
     <<"*">>}

\* complete statements, and what may stand after one
Statements ==
    {<<"S", "E", "L", "E", "C", "T", " ", "*", " ", "F", "R", "O", "M", " ", "t">>,
     <<"S", "E", "L", "E", "C", "T", " ", "*", " ", "F", "R", "O", "M", " ", "t", " ", "W", "H", "E", "R", "E", " ", "a", " ", "=", " ", "'", "b", "'">>}

EndTails ==
    {<<";">>,
     <<";", " ">>,
     <<";", "\n">>,
     <<" ", ";", " ">>}

ErrorTails ==
    {<<" ", "x">>,
     <<" ", "x", "y">>,
     <<";", " ", "x">>,
     <<";", "x">>,
     <<" ", "x", " ", "y">>,
     <<";", ";">>,
     <<" ", "1">>}

EndInputs == {b \o t : b \in Statements, t \in EndTails \cup ErrorTails}

\* the operators of a WHERE predicate and the token type of each
Operators ==
    {[op |-> <<"=">>, T |-> "TokenEqual"],
     [op |-> <<"!", "=">>, T |-> "TokenNE"],
     [op |-> <<">">>, T |-> "TokenGT"],
     [op |-> <<">", "=">>, T |-> "TokenGE"],
     [op |-> <<"<">>, T |-> "TokenLT"],
     [op |-> <<"<", "=">>, T |-> "TokenLE"],
     [op |-> <<"I", "N">>, T |-> "TokenIN"],
     [op |-> <<"i", "n">>, T |-> "TokenIN"],
     [op |-> <<"I", "n">>, T |-> "TokenIN"],
     [op |-> <<"L", "I", "K", "E">>, T |-> "TokenLike"],
     [op |-> <<"l", "i", "k", "e">>, T |-> "TokenLike"],
     [op |-> <<"L", "i", "k", "e">>, T |-> "TokenLike"]}

\* the value after an operator: a list for IN, one value otherwise
OperandOf(o) ==
    IF o.T = "TokenIN" THEN <<"(", "'", "b", "'", ",", " ", "'", "c", "'", ")">>
    ELSE <<"'", "b", "'">>

WhereOperator(o) ==
    Cat(<<<<"S", "E", "L", "E", "C", "T", " ", "*", " ", "F", "R", "O", "M", " ", "t", " ", "W", "H", "E", "R", "E", " ", "a", " ">>, o.op, <<" ">>, OperandOf(o)>>)

OperatorInputs == {WhereOperator(o) : o \in Operators}

\* WHERE predicates with a ! that no = follows
BangInputs ==
    {<<"S", "E", "L", "E", "C", "T", " ", "*", " ", "F", "R", "O", "M", " ", "t", " ", "W", "H", "E", "R", "E", " ", "a", " ", "!", " ", "'", "b", "'">>,
     <<"S", "E", "L", "E", "C", "T", " ", "*", " ", "F", "R", "O", "M", " ", "t", " ", "W", "H", "E", "R", "E", " ", "a", " ", "!", "'", "b", "'">>,
     <<"S", "E", "L", "E", "C", "T", " ", "*", " ", "F", "R", "O", "M", " ", "t", " ", "W", "H", "E", "R", "E", " ", "a", " ", "!">>,
     <<"S", "E", "L", "E", "C", "T", " ", "*", " ", "F", "R", "O", "M", " ", "t", " ", "W", "H", "E", "R", "E", " ", "a", " ", "!", " ", "=", " ", "'", "b", "'">>,
     <<"S", "E", "L", "E", "C", "T", " ", "*", " ", "F", "R", "O", "M", " ", "t", " ", "W", "H", "E", "R", "E", " ", "a", " ", "!", ">", " ", "'", "b", "'">>}

\* values that open with a quote and have no closing quote
UnterminatedValues ==
    {<<"'", "b">>,
     <<"'">>,
     <<"\"", "b", " ", "c">>,
     <<"'", "b", " ", "c", " ">>,
     <<"'", "i", "t", "'", "'", "s">>}

UnterminatedInputs == {WhereValue(v, <<>>) : v \in UnterminatedValues}

\* function calls in the SELECT list, each with the tokens of its text
FunctionCases ==
    {[in |-> <<"S", "E", "L", "E", "C", "T", " ", "l", "o", "w", "e", "r", "(", "a", ")", " ", "F", "R", "O", "M", " ", "t">>,
      exp |-> <<Token("TokenSelect", <<"S", "E", "L", "E", "C", "T">>),
              Token("TokenUdfExpr", <<"l", "o", "w", "e", "r">>),
              Token("TokenLeftParenthesis", <<"(">>),
              Token("TokenColumn", <<"a">>),
              Token("TokenRightParenthesis", <<")">>),
              Token("TokenFrom", <<"F", "R", "O", "M">>),
              Token("TokenTable", <<"t">>)>>],
     [in |-> <<"S", "E", "L", "E", "C", "T", " ", "l", "o", "w", "e", "r", "(", "a", ")", ",", " ", "b", " ", "F", "R", "O", "M", " ", "t">>,
      exp |-> <<Token("TokenSelect", <<"S", "E", "L", "E", "C", "T">>),
              Token("TokenUdfExpr", <<"l", "o", "w", "e", "r">>),
              Token("TokenLeftParenthesis", <<"(">>),
              Token("TokenColumn", <<"a">>),
              Token("TokenRightParenthesis", <<")">>),
              Token("TokenComma", <<",">>),
              Token("TokenColumn", <<"b">>),
              Token("TokenFrom", <<"F", "R", "O", "M">>),
              Token("TokenTable", <<"t">>)>>],
     [in |-> <<"S", "E", "L", "E", "C", "T", " ", "a", ",", " ", "L", "O", "W", "E", "R", "(", "b", ")", " ", "F", "R", "O", "M", " ", "t">>,
      exp |-> <<Token("TokenSelect", <<"S", "E", "L", "E", "C", "T">>),
              Token("TokenColumn", <<"a">>),
              Token("TokenComma", <<",">>),
              Token("TokenUdfExpr", <<"L", "O", "W", "E", "R">>),
              Token("TokenLeftParenthesis", <<"(">>),
              Token("TokenColumn", <<"b">>),
              Token("TokenRightParenthesis", <<")">>),
              Token("TokenFrom", <<"F", "R", "O", "M">>),
              Token("TokenTable", <<"t">>)>>],
     [in |-> <<"S", "E", "L", "E", "C", "T", " ", "f", "(", "a", ",", " ", "b", ")", " ", "F", "R", "O", "M", " ", "t">>,
      exp |-> <<Token("TokenSelect", <<"S", "E", "L", "E", "C", "T">>),
              Token("TokenUdfExpr", <<"f">>),
              Token("TokenLeftParenthesis", <<"(">>),
              Token("TokenColumn", <<"a">>),
              Token("TokenComma", <<",">>),
              Token("TokenColumn", <<"b">>),
              Token("TokenRightParenthesis", <<")">>),
              Token("TokenFrom", <<"F", "R", "O", "M">>),
              Token("TokenTable", <<"t">>)>>],
     [in |-> <<"S", "E", "L", "E", "C", "T", " ", "f", "(", "a", ",", "b", ")", ",", " ", "c", " ", "F", "R", "O", "M", " ", "t">>,
      exp |-> <<Token("TokenSelect", <<"S", "E", "L", "E", "C", "T">>),
              Token("TokenUdfExpr", <<"f">>),
              Token("TokenLeftParenthesis", <<"(">>),
              Token("TokenColumn", <<"a">>),
              Token("TokenComma", <<",">>),
              Token("TokenColumn", <<"b">>),
              Token("TokenRightParenthesis", <<")">>),
              Token("TokenComma", <<",">>),
              Token("TokenColumn", <<"c">>),
              Token("TokenFrom", <<"F", "R", "O", "M">>),
              Token("TokenTable", <<"t">>)>>],
     [in |-> <<"S", "E", "L", "E", "C", "T", " ", "f", "(", "g", "(", "a", ")", ")", ",", " ", "b", " ", "F", "R", "O", "M", " ", "t">>,
      exp |-> <<Token("TokenSelect", <<"S", "E", "L", "E", "C", "T">>),
              Token("TokenUdfExpr", <<"f">>),
              Token("TokenLeftParenthesis", <<"(">>),
              Token("TokenUdfExpr", <<"g">>),
              Token("TokenLeftParenthesis", <<"(">>),
              Token("TokenColumn", <<"a">>),
              Token("TokenRightParenthesis", <<")">>),
              Token("TokenRightParenthesis", <<")">>),
              Token("TokenComma", <<",">>),
              Token("TokenColumn", <<"b">>),
              Token("TokenFrom", <<"F", "R", "O", "M">>),
              Token("TokenTable", <<"t">>)>>],
     [in |-> <<"S", "E", "L", "E", "C", "T", " ", "f", "(", "g", "(", "a", ")", ",", " ", "'", "x", "'", ")", " ", "F", "R", "O", "M", " ", "t">>,
      exp |-> <<Token("TokenSelect", <<"S", "E", "L", "E", "C", "T">>),
              Token("TokenUdfExpr", <<"f">>),
              Token("TokenLeftParenthesis", <<"(">>),
              Token("TokenUdfExpr", <<"g">>),
              Token("TokenLeftParenthesis", <<"(">>),
              Token("TokenColumn", <<"a">>),
              Token("TokenRightParenthesis", <<")">>),
              Token("TokenComma", <<",">>),
              Token("TokenValue", <<"x">>),
              Token("TokenRightParenthesis", <<")">>),
              Token("TokenFrom", <<"F", "R", "O", "M">>),
              Token("TokenTable", <<"t">>)>>],
     [in |-> <<"S", "E", "L", "E", "C", "T", " ", "f", "(", "g", "(", "h", "(", "a", ")", ")", ")", " ", "F", "R", "O", "M", " ", "t">>,
      exp |-> <<Token("TokenSelect", <<"S", "E", "L", "E", "C", "T">>),
              Token("TokenUdfExpr", <<"f">>),
              Token("TokenLeftParenthesis", <<"(">>),
              Token("TokenUdfExpr", <<"g">>),
              Token("TokenLeftParenthesis", <<"(">>),
              Token("TokenUdfExpr", <<"h">>),
              Token("TokenLeftParenthesis", <<"(">>),
              Token("TokenColumn", <<"a">>),
              Token("TokenRightParenthesis", <<")">>),
              Token("TokenRightParenthesis", <<")">>),
              Token("TokenRightParenthesis", <<")">>),
              Token("TokenFrom", <<"F", "R", "O", "M">>),
              Token("TokenTable", <<"t">>)>>],
     [in |-> <<"S", "E", "L", "E", "C", "T", " ", "f", "(", ")", " ", "F", "R", "O", "M", " ", "t">>,
      exp |-> <<Token("TokenSelect", <<"S", "E", "L", "E", "C", "T">>),
              Token("TokenUdfExpr", <<"f">>),
              Token("TokenLeftParenthesis", <<"(">>),
              Token("TokenRightParenthesis", <<")">>),
              Token("TokenFrom", <<"F", "R", "O", "M">>),
              Token("TokenTable", <<"t">>)>>],
     [in |-> <<"S", "E", "L", "E", "C", "T", " ", "f", "(", " ", "a", " ", ")", ",", " ", "b", " ", "F", "R", "O", "M", " ", "t">>,
      exp |-> <<Token("TokenSelect", <<"S", "E", "L", "E", "C", "T">>),
              Token("TokenUdfExpr", <<"f">>),
              Token("TokenLeftParenthesis", <<"(">>),
              Token("TokenColumn", <<"a">>),
              Token("TokenRightParenthesis", <<")">>),
              Token("TokenComma", <<",">>),
              Token("TokenColumn", <<"b">>),
              Token("TokenFrom", <<"F", "R", "O", "M">>),
              Token("TokenTable", <<"t">>)>>],
     [in |-> <<"S", "E", "L", "E", "C", "T", " ", "f", "(", "1", ")", " ", "F", "R", "O", "M", " ", "t">>,
      exp |-> <<Token("TokenSelect", <<"S", "E", "L", "E", "C", "T">>),
              Token("TokenUdfExpr", <<"f">>),
              Token("TokenLeftParenthesis", <<"(">>),
              Token("TokenValue", <<"1">>),
              Token("TokenRightParenthesis", <<")">>),
              Token("TokenFrom", <<"F", "R", "O", "M">>),
              Token("TokenTable", <<"t">>)>>],
     [in |-> <<"S", "E", "L", "E", "C", "T", " ", "a", "v", "g", "(", "x", ".", "y", ")", ",", " ", "C3", "A9", " ", "F", "R", "O", "M", " ", "t">>,
      exp |-> <<Token("TokenSelect", <<"S", "E", "L", "E", "C", "T">>),
              Token("TokenUdfExpr", <<"a", "v", "g">>),
              Token("TokenLeftParenthesis", <<"(">>),
              Token("TokenColumn", <<"x", ".", "y">>),
              Token("TokenRightParenthesis", <<")">>),
              Token("TokenComma", <<",">>),
              Token("TokenColumn", <<"C3", "A9">>),
              Token("TokenFrom", <<"F", "R", "O", "M">>),
              Token("TokenTable", <<"t">>)>>]}

FunctionInputs == {c.in : c \in FunctionCases}

\* the call of f nested n deep around the column a: f(f(...f(a)...))
RECURSIVE Nested(_)
Nested(n) ==
    IF n = 0 THEN <<"a">> ELSE <<"f", "(">> \o Nested(n - 1) \o <<")">>

\* the calls that fill the stack up to StackLimit, above the FROM continuation
DeepNesting == StackLimit - 1

\* SELECT lists nested up to and past the depth where the stack is full
NestedInputs ==
    {<<"S", "E", "L", "E", "C", "T", " ">> \o Nested(n) \o f :
        n \in {DeepNesting - 1, DeepNesting},
        f \in {<<" ", "F", "R", "O", "M", " ", "t">>, <<",", " ", "b", " ", "F", "R", "O", "M", " ", "t">>}}
    \cup {<<"S", "E", "L", "E", "C", "T", " ">> \o Nested(DeepNesting + 1) \o <<" ", "F", "R", "O", "M", " ", "t", " ", "W", "H", "E", "R", "E", " ", "a", " ", "=", " ", "'", "b", "'">>,
          <<"S", "E", "L", "E", "C", "T", " ", "*", " ", "F", "R", "O", "M", " ", "t", " ", "W", "H", "E", "R", "E", " ", "a", " ", "I", "N", " ", "(">> \o Nested(DeepNesting) \o <<")", " ", "O", "R", " ", "c", " ", "=", " ", "'", "d", "'">>}

\* the connectives of two WHERE predicates, as written, with their token type
Connectives ==
    {[kw |-> <<"A", "N", "D">>, T |-> "TokenLogicAnd"], [kw |-> <<"a", "n", "d">>, T |-> "TokenLogicAnd"],
     [kw |-> <<"A", "n", "d">>, T |-> "TokenLogicAnd"], [kw |-> <<"O", "R">>, T |-> "TokenLogicOr"],
     [kw |-> <<"o", "r">>, T |-> "TokenLogicOr"], [kw |-> <<"o", "R">>, T |-> "TokenLogicOr"]}

\* the column names of the second predicate
SecondColumns == {<<"c">>, <<"c", "o", "l", "2">>}

\* SELECT * FROM t WHERE a = 'b' <connective> <column> = 'd'
WhereLogic(k, c) ==
    <<"S", "E", "L", "E", "C", "T", " ", "*", " ", "F", "R", "O", "M", " ", "t", " ", "W", "H", "E", "R", "E", " ", "a", " ", "=", " ", "'", "b", "'", " ">> \o k.kw \o <<" ">> \o c \o <<" ", "=", " ", "'", "d", "'">>

LogicInputs == {WhereLogic(k, c) : k \in Connectives, c \in SecondColumns}

\* IN lists after SELECT * FROM t WHERE a, each with its tokens
InLists ==
    {[list |-> <<"I", "N", " ", "(", "1", ")">>,
      exp |-> <<Token("TokenIN", <<"I", "N">>),
              Token("TokenLeftParenthesis", <<"(">>),
              Token("TokenValue", <<"1">>),
              Token("TokenRightParenthesis", <<")">>)>>],
     [list |-> <<"I", "N", " ", "(", "1", ",", " ", "2", ")">>,
      exp |-> <<Token("TokenIN", <<"I", "N">>),
              Token("TokenLeftParenthesis", <<"(">>),
              Token("TokenValue", <<"1">>),
              Token("TokenComma", <<",">>),
              Token("TokenValue", <<"2">>),
              Token("TokenRightParenthesis", <<")">>)>>],
     [list |-> <<"i", "n", " ", "(", "1", ",", "2", ",", "3", ")">>,
      exp |-> <<Token("TokenIN", <<"i", "n">>),
              Token("TokenLeftParenthesis", <<"(">>),
              Token("TokenValue", <<"1">>),
              Token("TokenComma", <<",">>),
              Token("TokenValue", <<"2">>),
              Token("TokenComma", <<",">>),
              Token("TokenValue", <<"3">>),
              Token("TokenRightParenthesis", <<")">>)>>],
     [list |-> <<"I", "N", " ", "(", "'", "b", "'", ",", " ", "'", "c", "'", ")">>,
      exp |-> <<Token("TokenIN", <<"I", "N">>),
              Token("TokenLeftParenthesis", <<"(">>),
              Token("TokenValue", <<"b">>),
              Token("TokenComma", <<",">>),
              Token("TokenValue", <<"c">>),
              Token("TokenRightParenthesis", <<")">>)>>],
     [list |-> <<"I", "n", " ", "(", " ", "'", "b", "'", ",", "'", "c", "'", " ", ",", " ", "7", " ", ")">>,
      exp |-> <<Token("TokenIN", <<"I", "n">>),
              Token("TokenLeftParenthesis", <<"(">>),
              Token("TokenValue", <<"b">>),
              Token("TokenComma", <<",">>),
              Token("TokenValue", <<"c">>),
              Token("TokenComma", <<",">>),
              Token("TokenValue", <<"7">>),
              Token("TokenRightParenthesis", <<")">>)>>],
     [list |-> <<"I", "N", " ", "(", "\"", "x", " ", "y", "\"", ")">>,
      exp |-> <<Token("TokenIN", <<"I", "N">>),
              Token("TokenLeftParenthesis", <<"(">>),
              Token("TokenValue", <<"x", " ", "y">>),
              Token("TokenRightParenthesis", <<")">>)>>]}

\* what follows the ) of the list
InFollowers == {<<>>, <<" ">>, <<";">>, <<" ", "O", "R", " ", "c", " ", "=", " ", "'", "d", "'">>, <<" ", "G", "R", "O", "U", "P", " ", "B", "Y", " ", "a">>, <<" ", "x">>}

WhereIn(c, f) == <<"S", "E", "L", "E", "C", "T", " ", "*", " ", "F", "R", "O", "M", " ", "t", " ", "W", "H", "E", "R", "E", " ", "a", " ">> \o c.list \o f

InInputs == {WhereIn(c, f) : c \in InLists, f \in InFollowers}

Inputs ==
    StarInputs \cup WhereInputs \cup CommentInputs \cup ClauseInputs \cup OtherInputs
    \cup QuotedNameInputs \cup ValueInputs \cup UnrecognizedInputs \cup EndInputs
    \cup OperatorInputs \cup BangInputs \cup UnterminatedInputs \cup FunctionInputs
    \cup NestedInputs \cup LogicInputs \cup InInputs

(***************************************************************************)
(* The lexer run by its caller.  A step is one turn of the loop of         *)
(* NextToken; out is the sequence of the tokens NextToken has returned.    *)
(***************************************************************************)
Store(l) ==
    /\ input' = l.input
    /\ state' = l.state
    /\ pos' = l.pos
    /\ start' = l.start
    /\ width' = l.width
    /\ tokens' = l.tokens
    /\ stack' = l.stack
    /\ halt' = l.halt

\* NewLexer(input)
NewLexer(in) ==
    /\ input = in
    /\ state = "lexStatement"
    /\ pos = 0
    /\ start = 0
    /\ width = 0
    /\ tokens = <<>>
    /\ stack = <<>>
    /\ halt = "none"

Init ==
    /\ \E in \in Inputs : NewLexer(in)
    /\ out = <<>>
    /\ lastOp = [op |-> "none", n |-> 0]
    /\ prevPos = 0

\* a call of NextToken can take a turn of its loop
CanStep == halt = "none" /\ Len(out) < MaxCalls

\* case token := <-l.tokens: return token
NextTokenRecv ==
    /\ CanStep
    /\ tokens # <<>>
    /\ out' = Append(out, Head(tokens))
    /\ tokens' = Tail(tokens)
    /\ UNCHANGED <<input, state, pos, start, width, stack, halt, lastOp, prevPos>>

\* default, l.state == nil && len(l.stack) > 0: pop, then call the state
NextTokenPop ==
    /\ CanStep
    /\ tokens = <<>>
    /\ state = "nil"
    /\ Len(stack) > 0
    /\ Store(CallState(pop(Lexer)))
    /\ UNCHANGED <<out, lastOp, prevPos>>

\* default, l.state == nil and nothing on the stack: return EOF
NextTokenEOF ==
    /\ CanStep
    /\ tokens = <<>>
    /\ state = "nil"
    /\ Len(stack) = 0
    /\ out' = Append(out, Token("TokenEOF", <<>>))
    /\ UNCHANGED <<input, state, pos, start, width, tokens, stack, halt, lastOp, prevPos>>

\* default, l.state != nil: call the state
NextTokenCall ==
    /\ CanStep
    /\ tokens = <<>>
    /\ state # "nil"
    /\ Store(CallState(Lexer))
    /\ UNCHANGED <<out, lastOp, prevPos>>

Next == NextTokenRecv \/ NextTokenPop \/ NextTokenEOF \/ NextTokenCall

Spec == Init /\ [][Next]_vars

(***************************************************************************)
(* The lexer run by a caller that goes on calling NextToken and keeps only *)
(* the token of the last call: out holds that token alone, so a lexer that *)
(* comes back to a state it has been in is seen to do so.  The caller      *)
(* never stops calling and a call runs its loop until a token is there,    *)
(* hence the weak fairness of the loop's turns.                            *)
(***************************************************************************)
\* case token := <-l.tokens: return token
LastTokenRecv ==
    /\ halt = "none"
    /\ tokens # <<>>
    /\ out' = <<Head(tokens)>>
    /\ tokens' = Tail(tokens)
    /\ UNCHANGED <<input, state, pos, start, width, stack, halt, lastOp, prevPos>>

\* default, l.state == nil and nothing on the stack: return EOF
LastTokenEOF ==
    /\ halt = "none"
    /\ tokens = <<>>
    /\ state = "nil"
    /\ Len(stack) = 0
    /\ out' = <<Token("TokenEOF", <<>>)>>
    /\ UNCHANGED <<input, state, pos, start, width, tokens, stack, halt, lastOp, prevPos>>

NextLive == LastTokenRecv \/ NextTokenPop \/ LastTokenEOF \/ NextTokenCall

\* statements that end in the FROM or the WHERE clause, and texts that end
\* inside a list of columns
LiveInputs ==
    {<<>>,
     <<"x">>,
     <<"S", "E", "L", "E", "C", "T", " ", "*", " ", "F", "R", "O", "M", " ", "t">>,
     <<"S", "E", "L", "E", "C", "T", " ", "a", ",", " ", "b", " ", "F", "R", "O", "M", " ", "t", ";">>,
     <<"S", "E", "L", "E", "C", "T", " ", "*", " ", "F", "R", "O", "M", " ", "t", " ", "W", "H", "E", "R", "E", " ", "a", " ", "=", " ", "'", "b", "'", " ", "O", "R", " ", "c", " ", "=", " ", "'", "d", "'">>,
     <<"S", "E", "L", "E", "C", "T", " ", "l", "o", "w", "e", "r", "(", "a", ")", ",", " ", "b", " ", "F", "R", "O", "M", " ", "t", " ", "W", "H", "E", "R", "E", " ", "a", " ", "I", "N", " ", "(", "1", ",", " ", "2", ")">>,
     <<"S", "E", "L", "E", "C", "T", " ", "a">>,
     <<"S", "E", "L", "E", "C", "T", " ", "a", ",", " ">>,
     <<"S", "E", "L", "E", "C", "T", " ", "l", "o", "w", "e", "r", "(", "a", ")">>,
     <<"S", "E", "L", "E", "C", "T", " ", "*", " ", "F", "R", "O", "M", " ", "t", " ", "G", "R", "O", "U", "P", " ", "B", "Y", " ", "a">>,
     <<"S", "E", "L", "E", "C", "T", " ", "*", " ", "F", "R", "O", "M", " ", "t", " ", "W", "H", "E", "R", "E", " ", "a", " ", "=", " ", "'", "b", "'", " ", "G", "R", "O", "U", "P", " ", "B", "Y", " ", "a", ",", " ", "b", " ">>,
     <<"/", "*", " ", "c", " ", "*", "/", " ", "S", "E", "L", "E", "C", "T", " ", "a", " ", "A", "S", " ", "b", " ", "F", "R", "O", "M", " ", "t">>}

InitLive ==
    /\ \E in \in LiveInputs : NewLexer(in)
    /\ out = <<>>
    /\ lastOp = [op |-> "none", n |-> 0]
    /\ prevPos = 0

\* a turn that calls a state can be taken: no token waits in the channel and
\* there is a state to call or to pop
CanCallState == halt = "none" /\ tokens = <<>> /\ (state # "nil" \/ stack # <<>>)

\* weak fairness of the turns that call a state, with their enabling
\* condition CanCallState written out
CallStateFair ==
    \/ []<>(~CanCallState)
    \/ []<><<NextTokenPop \/ NextTokenCall>>_vars

SpecLive ==
    /\ InitLive
    /\ [][NextLive]_vars
    /\ WF_vars(LastTokenRecv)
    /\ WF_vars(LastTokenEOF)
    /\ CallStateFair

(***************************************************************************)
(* The cursor on its own: next, backup and peek called in any order.       *)
(* lastOp is the last call and how many times in a row it was made,        *)
(* prevPos the position before the last next or peek.                      *)
(***************************************************************************)
CursorInputs ==
    {<<>>, <<"a">>, <<"a", "b">>, <<"a", "b", "c">>, <<"C3", "A9">>,
     <<"a", "C3", "A9", "b">>, <<"C3", "A9", "C3", "A9">>, <<"C3", "b">>,
     <<"A9">>, <<" ", "x">>}

InitCursor ==
    /\ \E in \in CursorInputs : NewLexer(in)
    /\ out = <<>>
    /\ lastOp = [op |-> "none", n |-> 0]
    /\ prevPos = 0

Again(op) == [op |-> op, n |-> IF lastOp.op = op THEN lastOp.n + 1 ELSE 1]

CursorNext ==
    /\ halt = "none"
    /\ Store(next(Lexer))
    /\ lastOp' = [op |-> "next", n |-> 1]
    /\ prevPos' = pos
    /\ UNCHANGED out

CursorBackup ==
    /\ halt = "none"
    /\ ~(lastOp.op = "backup" /\ lastOp.n >= MaxBackups)
    /\ Store(backup(Lexer))
    /\ lastOp' = Again("backup")
    /\ UNCHANGED <<out, prevPos>>

CursorPeek ==
    /\ halt = "none"
    /\ Store(peek(Lexer))
    /\ lastOp' = [op |-> "peek", n |-> 1]
    /\ prevPos' = pos
    /\ UNCHANGED out

NextCursor == CursorNext \/ CursorBackup \/ CursorPeek

SpecCursor == InitCursor /\ [][NextCursor]_vars

(***************************************************************************)
(* The number scanner on its own: a Lexer whose state is lexNumber, at the  *)
(* beginning of the text, run by NextToken.                                *)
(***************************************************************************)
NumberInputs ==
    {<<"1", "2", "3">>,
     <<"1", "2", "3", ".", "4", "5">>,
     <<"0", "x", "1", "A", "2", "B">>,
     <<"-", "3", "e", "-", "3">>,
     <<"0", "1", "2", "3">>,
     <<"0", "x", "1", ".", "5">>,
     <<"1">>,
     <<"-", "1">>,
     <<"+", "5">>,
     <<"0">>,
     <<"1", "0">>,
     <<"0", ".", "5">>,
     <<"1", "e", "5">>,
     <<"1", "e">>,
     <<"1", "2", "a">>,
     <<"0", "x", "G">>,
     <<"-", "0", "x", "1">>,
     <<"1", ".">>,
     <<".", "5">>,
     <<"0", "x">>,
     <<"1", ".", "5", "e", "+", "1", "0">>,
     <<"0", "0">>,
     <<"-", "0">>,
     <<>>,
     <<"a", "b">>,
     <<"0", "x", "f", "f">>,
     <<"1", "2", " ">>,
     <<"1", "2", ",", "3">>,
     <<"1", "C3", "A9">>,
     <<"-">>,
     <<"+", "1", "2", ".", "5", "e", "-", "2", " ">>,
     <<"0", "x", "0", "x", "1">>,
     <<"1", "2", ")">>}

\* the characters of number literals: a sign, digits, x, a hex letter, the
\* decimal point and the exponent marker
LiteralAlphabet == {"-", "0", "1", "x", "A", ".", "e"}

MaxLiteral == 4

\* every text of one to MaxLiteral characters of number literals
Literals == UNION {[1..k -> LiteralAlphabet] : k \in 1..MaxLiteral}

InitNumber ==
    /\ input \in NumberInputs \cup Literals
    /\ state = "lexNumber"
    /\ pos = 0
    /\ start = 0
    /\ width = 0
    /\ tokens = <<>>
    /\ stack = <<>>
    /\ halt = "none"
    /\ out = <<>>
    /\ lastOp = [op |-> "none", n |-> 0]
    /\ prevPos = 0

NextNumber == NextTokenRecv \/ NextTokenEOF \/ NextTokenCall

SpecNumber == InitNumber /\ [][NextNumber]_vars

(***************************************************************************)
(* tryMatch on its own: called with a lower-case word at any position the  *)
(* cursor can be moved to.  lastOp records the word and the result of the  *)
(* call, prevPos the position before it.                                   *)
(***************************************************************************)
MatchWords ==
    {<<"w", "h", "e", "r", "e">>,
     <<"g", "r", "o", "u", "p", " ", "b", "y">>,
     <<"a", "b">>}

MatchInputs ==
    {<<>>,
     <<"w", "h", "e", "r", "e">>,
     <<"W", "H", "E", "R", "E", " ", "x">>,
     <<"w", "h">>,
     <<"w", "h", "C3", "A9">>,
     <<"w", "C3", "A9", "e", "r", "e">>,
     <<"w", "e", "r", "e">>,
     <<"g", "r", "o", "u", "p", " ", "b", "y">>,
     <<"g", "r", "o", "u", "p", " ", "b", "C3", "A9">>,
     <<"G", "R", "O", "U", "P">>,
     <<"a", "b">>,
     <<"a">>,
     <<"a", "C3", "A9">>,
     <<"C3", "A9", "a", "b">>,
     <<"x", "a", "b">>,
     <<"a", "b", "a", "b">>,
     <<"a", " ", "b">>}

InitTryMatch ==
    /\ \E in \in MatchInputs : NewLexer(in)
    /\ out = <<>>
    /\ lastOp = [op |-> "none", n |-> 0]
    /\ prevPos = 0

TryMatchCall ==
    /\ halt = "none"
    /\ \E w \in MatchWords :
         LET m == tryMatch(Lexer, w) IN
         /\ Store(m)
         /\ lastOp' = [op |-> "tryMatch", n |-> 1, word |-> w, ok |-> m.ok]
    /\ prevPos' = pos
    /\ UNCHANGED out

NextTryMatch == CursorNext \/ TryMatchCall

SpecTryMatch == InitTryMatch /\ [][NextTryMatch]_vars

(***************************************************************************)
(* The properties.                                                         *)
(***************************************************************************)
EOFToken == Token("TokenEOF", <<>>)

\* the tokens returned so far are the first ones of exp followed by EOF
\* tokens only
OutFollows(exp) ==
    \A i \in DOMAIN out : out[i] = IF i <= Len(exp) THEN exp[i] ELSE EOFToken

Returned(typ) == \E i \in DOMAIN out : out[i].T = typ

StarTokens(s, f, t) ==
    <<Token("TokenSelect", s), Token("TokenStar", <<"*">>), Token("TokenFrom", f),
      Token("TokenTable", t)>>

\* C1: on SELECT * FROM <table> with a bare table name, the calls of
\* NextToken return Select, Star, From, Table with the table name as its
\* text, and then EOF only; no call fails to return.
C1_SelectStarFrom ==
    \A s \in SelectWords, f \in FromWords, t \in TableNames :
        input = SelectStarFrom(s, f, t) =>
            halt = "none" /\ OutFollows(StarTokens(s, f, t))

\* C1: the four tokens and two EOF tokens have been returned
C1_Witness ==
    /\ input \in StarInputs
    /\ Len(out) >= 6
    /\ out[4].T = "TokenTable"
    /\ out[5] = EOFToken
    /\ out[6] = EOFToken

\* C2: on SELECT <col1>, <col2> FROM <table> WHERE <col> = <value>, the
\* value quoted or not and ending the input, the calls of NextToken return
\* Select, Column, Comma, Column, From, Table, Where, Column, Equal, Value
\* in that order, each call returning.
C2_SelectWhere ==
    \A c1 \in Column1Names, c2 \in Column2Names, w \in WhereWords,
       c \in WhereColumnNames, v \in QuotedValues \cup UnquotedValues :
        input = SelectWhere(<<"S", "E", "L", "E", "C", "T">>, c1, c2,
                            <<"F", "R", "O", "M">>, <<"t">>, w, c, v)
        => /\ halt = "none"
           /\ OutFollows(<<Token("TokenSelect", <<"S", "E", "L", "E", "C", "T">>),
                           Token("TokenColumn", c1), Token("TokenComma", <<",">>),
                           Token("TokenColumn", c2),
                           Token("TokenFrom", <<"F", "R", "O", "M">>),
                           Token("TokenTable", <<"t">>), Token("TokenWhere", w),
                           Token("TokenColumn", c), Token("TokenEqual", <<"=">>),
                           Token("TokenValue",
                                 IF v \in QuotedValues THEN Unquote(v) ELSE v)>>)

\* C3: once NextToken has returned an EOF token, every later call returns
\* EOF and changes neither the read position, the token start, the current
\* state nor the stack.
C3_EOFIsFinal ==
    [][Returned("TokenEOF") =>
        /\ out' = Append(out, EOFToken)
        /\ pos' = pos
        /\ start' = start
        /\ state' = state
        /\ stack' = stack]_vars

\* C3: tokens were returned, then EOF, then EOF again
C3_Witness ==
    /\ Len(out) >= 3
    /\ out[1].T = "TokenSelect"
    /\ out[Len(out) - 1] = EOFToken
    /\ out[Len(out)] = EOFToken

\* C4: once NextToken has returned an Error token, every later call
\* returns EOF, no continuation is popped and run and no input is consumed.
C4_ErrorIsFinal ==
    [][Returned("TokenError") =>
        /\ out' = out \/ out' = Append(out, EOFToken)
        /\ pos' = pos
        /\ stack' = stack]_vars

\* C5: a state function emits at most one token per call: emit is never
\* executed while the token channel holds an undelivered token.
C5_OneTokenPerCall == halt # "block"

\* C6: every call of NextToken returns: no state function loops for ever
\* and none blocks.
C6_NextTokenReturns == halt \notin {"loop", "block"}

\* C7: no input makes NextToken panic.
C7_NoPanic == halt # "panic"

\* C8: a comment (-- note, # note, // note up to the newline, or
\* /* note */) before SELECT * FROM <table> gives one Comment token with
\* the comment's text, delimiters included and newline excluded, and then
\* the tokens of the statement alone.
C8_CommentThenStatement ==
    \A p \in CommentPrefixes, s \in SelectWords, f \in FromWords, t \in TableNames :
        input = p \o SelectStarFrom(s, f, t) =>
            /\ halt = "none"
            /\ OutFollows(<<Token("TokenComment", CommentText(p))>> \o StarTokens(s, f, t))

\* C8: the comment, the four tokens of the statement and EOF were returned
C8_Witness ==
    /\ input \in CommentInputs
    /\ Len(out) >= 6
    /\ out[1].T = "TokenComment"
    /\ out[5].T = "TokenTable"
    /\ out[6] = EOFToken

\* C9: in every state 0 <= token start <= read position <= length of the
\* input.
C9_CursorOrder == 0 <= start /\ start <= pos /\ pos <= Len(input)

\* C10: backup undoes the last next and nothing more: next then backup
\* leaves the position where it was, a further backup does not move it,
\* and the position never drops below the start of the buffer.
C10_BackupUndoesOneNext ==
    [][/\ (lastOp.op = "next" /\ lastOp'.op = "backup") => pos' = prevPos
       /\ (lastOp.op = "backup" /\ lastOp'.op = "backup") => pos' = pos
       /\ pos' >= 0]_vars

\* the name between the delimiters of a quoted identifier
NameOf(q) == SubSeq(q, 2, Len(q) - 1)

SelectKw == Token("TokenSelect", <<"S", "E", "L", "E", "C", "T">>)
FromKw == Token("TokenFrom", <<"F", "R", "O", "M">>)
WhereKw == Token("TokenWhere", <<"W", "H", "E", "R", "E">>)

\* the call number n of NextToken, if made, returned an Error token
ErrorAt(n) == Len(out) >= n => out[n].T = "TokenError"

\* C11: where a column or a table is expected (the SELECT list, after FROM,
\* the WHERE column) [first name] and 'first name' give one Column or Table
\* token with the text first name, and an identifier closed by the other
\* delimiter gives an Error token.
C11_QuotedIdentifier ==
    /\ \A q \in QuotedNames :
        /\ input = SelectQuoted(q) =>
             /\ halt = "none"
             /\ OutFollows(<<SelectKw, Token("TokenColumn", NameOf(q)), FromKw,
                             Token("TokenTable", <<"t">>)>>)
        /\ input = FromQuoted(q) =>
             /\ halt = "none"
             /\ OutFollows(<<SelectKw, Token("TokenStar", <<"*">>), FromKw,
                             Token("TokenTable", NameOf(q))>>)
        /\ input = WhereQuoted(q) =>
             /\ halt = "none"
             /\ OutFollows(<<SelectKw, Token("TokenStar", <<"*">>), FromKw,
                             Token("TokenTable", <<"t">>), WhereKw,
                             Token("TokenColumn", NameOf(q)),
                             Token("TokenEqual", <<"=">>),
                             Token("TokenValue", <<"x">>)>>)
    /\ \A q \in MismatchedNames :
        /\ input = SelectQuoted(q) => halt = "none" /\ ErrorAt(2)
        /\ input = FromQuoted(q) => halt = "none" /\ ErrorAt(4)
        /\ input = WhereQuoted(q) => halt = "none" /\ ErrorAt(6)

\* the tokens returned so far are the first ones of exp, whatever follows
OutStarts(exp) == \A i \in DOMAIN out : i <= Len(exp) => out[i] = exp[i]

\* the tokens of SELECT * FROM t WHERE a =
WhereValueTokens ==
    <<SelectKw, Token("TokenStar", <<"*">>), FromKw, Token("TokenTable", <<"t">>),
      WhereKw, Token("TokenColumn", <<"a">>), Token("TokenEqual", <<"=">>)>>

\* the calls of NextToken return the tokens before the value, then one token
\* of the type typ with the text between the quotes of v, then no value token
OneValueToken(v, typ) ==
    /\ OutStarts(Append(WhereValueTokens, Token(typ, Unquote(v))))
    /\ Len(out) <= Len(WhereValueTokens) => halt = "none"
    /\ Len(out) > Len(WhereValueTokens) + 1 =>
         out[Len(WhereValueTokens) + 2].T \notin {"TokenValue", "TokenValueWithSingleQuote"}

\* C12: a quoted value with a doubled quote inside ('it''s'), ending the
\* input or followed by more of the statement, gives exactly one token of
\* the type ValueWithSingleQuote whose text is what stands between the outer
\* quotes, the doubled quote still in it; a quoted value with no doubled
\* quote gives one token of the type Value.
C12_DoubledQuote ==
    \A f \in ValueFollowers :
        /\ \A v \in DoubledValues :
             input = WhereValue(v, f) => OneValueToken(v, "TokenValueWithSingleQuote")
        /\ \A v \in QuotedValues :
             input = WhereValue(v, f) => OneValueToken(v, "TokenValue")

\* C13: lexNumber started at the beginning of the literal gives
\* Integer(123) for 123, Float(123.45) for 123.45, Integer(0x1A2B) for
\* 0x1A2B, Float(-3e-3) for -3e-3, and an Error token for 0123 and for
\* 0x1.5.
C13_NumberLiterals ==
    /\ \A n \in {<<"1", "2", "3">>, <<"0", "x", "1", "A", "2", "B">>} :
         input = n => halt = "none" /\ OutFollows(<<Token("TokenInteger", n)>>)
    /\ \A n \in {<<"1", "2", "3", ".", "4", "5">>, <<"-", "3", "e", "-", "3">>} :
         input = n => halt = "none" /\ OutFollows(<<Token("TokenFloat", n)>>)
    /\ \A n \in {<<"0", "1", "2", "3">>, <<"0", "x", "1", ".", "5">>} :
         input = n => halt = "none" /\ ErrorAt(1) /\ ~Returned("TokenInteger")
                      /\ ~Returned("TokenFloat")

\* C13: the Float token of -3e-3 was returned, and EOF after it
C13_Witness ==
    /\ input = <<"-", "3", "e", "-", "3">>
    /\ Len(out) >= 2
    /\ out[1] = Token("TokenFloat", <<"-", "3", "e", "-", "3">>)
    /\ out[2] = EOFToken

\* after leading whitespace the text in goes on with a character that is
\* neither /, -, # nor s, S
Unrecognized(in) ==
    \E k \in DOMAIN in :
        /\ \A j \in 1..(k - 1) : IsSpace(in[j])
        /\ ~IsSpace(in[k])
        /\ in[k] \notin {"/", "-", "#", "s", "S"}

\* C14: when, after leading whitespace, the input goes on with a character
\* that is neither a comment prefix (/, -, #) nor s or S, the first token
\* NextToken returns is an Error token, not EOF.
C14_UnrecognizedIsError == Unrecognized(input) => halt = "none" /\ ErrorAt(1)

\* the tokens of a statement of Statements
StatementTokens(b) ==
    LET star == <<SelectKw, Token("TokenStar", <<"*">>), FromKw,
                  Token("TokenTable", <<"t">>)>>
    IN IF Len(b) = Len(SelectStarFrom(SelectKw.V, FromKw.V, <<"t">>)) THEN star
       ELSE star \o <<WhereKw, Token("TokenColumn", <<"a">>),
                      Token("TokenEqual", <<"=">>), Token("TokenValue", <<"b">>)>>

\* C15: after a complete statement a ; gives one EndOfStatement token and
\* then EOF, whitespace after the ; or not; anything else that is not
\* whitespace, one character or more, after a ; or not, gives an Error
\* token.
C15_EndOfStatement ==
    \A b \in Statements :
        /\ \A t \in EndTails :
             input = b \o t =>
                 /\ halt = "none"
                 /\ OutFollows(Append(StatementTokens(b), Token("TokenEOS", <<";">>)))
        /\ \A t \in ErrorTails :
             input = b \o t =>
                 /\ halt = "none"
                 /\ OutStarts(StatementTokens(b))
                 /\ Len(out) >= MaxCalls => Returned("TokenError")

\* the tokens of SELECT * FROM t WHERE a
WhereColumnTokens == SubSeq(WhereValueTokens, 1, Len(WhereValueTokens) - 1)

\* C16: in a WHERE predicate <col> <op> <value> each of =, !=, >, >=, <, <=,
\* IN, LIKE (the keywords in any letter case) gives exactly one token, of
\* the type Equal, NE, GT, GE, LT, LE, IN, Like, with the operator as its
\* text, after the Column token and before the tokens of the value.
C16_OperatorToken ==
    \A o \in Operators :
        input = WhereOperator(o) =>
            /\ OutStarts(Append(WhereColumnTokens, Token(o.T, o.op)))
            /\ Len(out) <= Len(WhereColumnTokens) + 1 => halt = "none"
            /\ Len(out) > Len(WhereColumnTokens) + 1 =>
                 out[Len(WhereColumnTokens) + 2].T =
                     IF o.T = "TokenIN" THEN "TokenLeftParenthesis" ELSE "TokenValue"

\* C17: in a WHERE predicate a ! that no = follows at once makes the call of
\* NextToken after the Column token return an Error token.
C17_BangWithoutEqual ==
    input \in BangInputs =>
        /\ halt = "none"
        /\ OutStarts(WhereColumnTokens)
        /\ ErrorAt(Len(WhereColumnTokens) + 1)

\* C18: when a value opens with a quote and the input ends before a closing
\* quote, lexValue stops at the end of the input and the call of NextToken
\* returns an Error token.
C18_UnterminatedValue ==
    input \in UnterminatedInputs =>
        /\ halt = "none"
        /\ OutStarts(WhereValueTokens)
        /\ ErrorAt(Len(WhereValueTokens) + 1)

\* C19: tryMatch(word) that returns false leaves the read position where it
\* was before the call, at every position of every input, the end of the
\* input reached part-way through the word included; tryMatch that returns
\* true has moved the position forward by the word.
C19_TryMatchRestores ==
    lastOp.op = "tryMatch" =>
        pos = IF lastOp.ok THEN prevPos + Len(lastOp.word) ELSE prevPos

\* the messages the state functions hand to errorToken and errorf, each
\* without the text appended to it
ErrorMessages ==
    {"BUG in lexer: no states to pop.",
     "Unexpected token:",
     "expected value but got EOF",
     "string value was not delimited",
     "expression must begin with a paren: ( ",
     "identifier must begin with a letter ",
     "unexpected character in identifier:  ",
     "bad number syntax: "}

\* C20: the text of every Error token a state of the grammar produces is
\* the message the state gave for the failure, which is not empty, and not
\* the pending lexeme between the token start and the read position.
C20_ErrorCarriesMessage ==
    \A i \in DOMAIN out :
        out[i].T = "TokenError" =>
            out[i].V # <<>> /\ out[i].V[1] \in ErrorMessages

\* how many of the tokens returned so far are of the type typ
Count(typ) == Cardinality({i \in DOMAIN out : out[i].T = typ})

\* the parentheses open in the tokens returned so far
Open == Count("TokenLeftParenthesis") - Count("TokenRightParenthesis")

\* the token a state function has emitted and NextToken has not yet returned
Emitted(typ) == tokens # <<>> /\ Head(tokens).T = typ

\* the stack at an item of the SELECT list outside every function call: the
\* FROM continuation and the continuation of the item
ItemDepth == Len(<<"from keyword", "columnorcomma">>)

FunctionCase == CHOOSE c \in FunctionCases : 
    c.in = <<"S", "E", "L", "E", "C", "T", " ", "f", "(", "g", "(", "a", ")", ")", ",", " ", "b", " ", "F", "R", "O", "M", " ", "t">>

NestedHead(n) == 1 + 2 * n

\* C22: an item of a list that is reached with StackLimit entries on the
\* stack, where one more continuation would have to be pushed, gives an
\* Error token.
C22_OverflowReported ==
    \A in \in NestedInputs :
        (input = in /\ Count("TokenLeftParenthesis") = DeepNesting) =>
            ErrorAt(NestedHead(DeepNesting) + 1)

\* C23: in WHERE <c1> = <v1> AND <c2> = <v2>, and with OR, in any letter
\* case, the connective gives one And / Or token with the keyword as written
\* as its text, then Column with the whole name <c2>, then the operator
\* token and the Value of the second predicate.
C23_LogicConnective ==
    \A k \in Connectives, c \in SecondColumns :
        input = WhereLogic(k, c) =>
            /\ halt = "none"
            /\ OutFollows(WhereValueTokens \o
                   <<Token(k.T, k.kw), Token("TokenColumn", c),
                     Token("TokenEqual", <<"=">>), Token("TokenValue", <<"d">>)>>)

\* the continuation of a WHERE predicate: the state that looks for AND / OR,
\* GROUP BY or the end of the statement
AfterPredicate ==
    [Name |-> "lexSqlWhereCommaOrLogicOrNext", StateFn |-> "lexSqlWhereCommaOrLogicOrNext"]

\* the tokens of SELECT * FROM t WHERE a
InHead == SubSeq(WhereValueTokens, 1, Len(WhereValueTokens) - 1)

\* C24: for WHERE <col> IN (<v1>, <v2>, ...) the tokens after Column are IN,
\* LeftParenthesis, one Value for each element with Comma between them,
\* RightParenthesis; when the RightParenthesis is emitted the only state
\* left on the stack is the one that looks for AND / OR, GROUP BY or the end
\* of the statement, and once it has been popped and run the stack is empty.
C24_InList ==
    \A c \in InLists, f \in InFollowers :
        input = WhereIn(c, f) =>
            /\ OutStarts(InHead \o c.exp)
            /\ Len(out) < Len(InHead \o c.exp) => halt = "none"
            /\ Emitted("TokenRightParenthesis") =>
                   state = "nil" /\ stack = <<AfterPredicate>>
            /\ (Len(out) = Len(InHead \o c.exp) /\ halt = "none") =>
                   \/ state = "nil" /\ stack = <<AfterPredicate>> /\ tokens = <<>>
                   \/ stack = <<>>

\* C24: the ) of IN ( 'b','c' , 7 ) has been returned, the state after the
\* predicate has run and found the OR, and the stack is empty
C24_Witness ==
    /\ \E c \in InLists : Len(c.exp) = 8 /\ input = WhereIn(c, <<" ", "O", "R", " ", "c", " ", "=", " ", "'", "d", "'">>)
                          /\ Len(out) = Len(InHead \o c.exp)
    /\ Emitted("TokenLogicOr")
    /\ state = "lexSqlWhereColumn"
    /\ stack = <<>>

\* the text s without its sign, if it has one
Unsigned(s) == IF s # <<>> /\ s[1] \in {"+", "-"} THEN Tail(s) ELSE s

\* one decimal digit or more
IsDigits(s) == s # <<>> /\ \A i \in DOMAIN s : s[i] \in decDigits

\* 0, or digits not beginning with 0 after an optional sign
IsDecimalInteger(s) == s = <<"0">> \/ (IsDigits(Unsigned(s)) /\ Unsigned(s)[1] # "0")

\* 0x and one hex digit or more, without a sign
IsHexInteger(s) ==
    /\ Len(s) >= 3
    /\ SubSeq(s, 1, 2) = <<"0", "x">>
    /\ \A i \in 3..Len(s) : s[i] \in hexDigits

\* digits, the decimal point, digits
IsPointForm(u) ==
    \E k \in DOMAIN u :
        u[k] = "." /\ IsDigits(SubSeq(u, 1, k - 1)) /\ IsDigits(SubSeq(u, k + 1, Len(u)))

\* a decimal number, e, and digits after an optional sign
IsExponentForm(u) ==
    \E k \in DOMAIN u :
        /\ u[k] = "e"
        /\ LET m == SubSeq(u, 1, k - 1)
           IN  (IsDigits(m) /\ m[1] # "0") \/ IsPointForm(m)
        /\ IsDigits(Unsigned(SubSeq(u, k + 1, Len(u))))

IsFloat(s) == IsPointForm(Unsigned(s)) \/ IsExponentForm(Unsigned(s))

\* lexNumber has emitted or returned the whole text as one token of type typ
Accepted(typ) == Token(typ, input) \in {tokens[i] : i \in DOMAIN tokens} \cup {out[i] : i \in DOMAIN out}

\* C25: for every text of one character or more over sign, digits, x, hex
\* letters, . and e, scanNumber started at its beginning reads nothing
\* outside the text, accepts it as Integer exactly when it is 0, digits not
\* beginning with 0 (signed or not) or 0x with hex digits, accepts it as
\* Float exactly when it has the decimal-point or the exponent form, and
\* rejects it otherwise.
C25_NumberGrammar ==
    /\ input \in Literals => halt = "none"
    /\ (input \in Literals /\ state = "nil") =>
        /\ Accepted("TokenInteger") <=> (IsDecimalInteger(input) \/ IsHexInteger(input))
        /\ Accepted("TokenFloat") <=> IsFloat(input)

\* the token of the last call of NextToken is of the type typ
LastIs(typ) == out # <<>> /\ out[Len(out)].T = typ

\* C26: for every input on which the scanner does not stop in a panic or
\* hang, the calls of NextToken come to return EOF.
C26_ReachesEOF == <>(halt # "none" \/ LastIs("TokenEOF"))

\* the states with a push that no test of the stack depth guards
UnguardedPush == {"lexStatement", "lexSqlWhereColumnExpr"}

\* C27: in every reachable state the continuation stack holds at most 10
\* entries, and the states that push without testing the depth (lexStatement,
\* lexSqlWhereColumnExpr) are only ever called with an empty stack.
C27_StackBounded ==
    /\ Len(stack) <= MaxDepth
    /\ (halt = "none" /\ state \in UnguardedPush) => stack = <<>>

\* C27: inside nine nested calls the stack is full when the innermost
\* argument is emitted
C27_Witness ==
    /\ input \in NestedInputs
    /\ Len(stack) = MaxDepth
    /\ Emitted("TokenColumn")
    /\ Count("TokenLeftParenthesis") = DeepNesting

\* the token returned just before the i-th one is of the type typ
Follows(i, typ) == i > 1 /\ out[i - 1].T = typ

====
